---- MODULE Spec2Model ----
(***************************************************************************)
(* A model of the tpu_info core of cloud-accelerator-diagnostics:          *)
(*   - device.py      chip catalogue and the PCI bus scan                  *)
(*   - cli_helper.py  the libtpu canary process and the guarded import     *)
(*   - metrics.py     usage records and the histogram percentile walk      *)
(* Each component has its own specification (SpecScan, SpecProbe,          *)
(* SpecUsage, SpecPct); the variables of the other components stay at      *)
(* their idle values.                                                      *)
(***************************************************************************)
EXTENDS Integers, Sequences, FiniteSets, TLC

VARIABLES
  \* ---- device.py ----
  bus,          \* /sys/bus/pci/devices/*: the entries glob.glob returns, in order
  scanResult,   \* outcome of the last get_local_chips() call, or NotCalled
  \* ---- cli_helper.py, the canary ----
  lib,          \* what importing libtpu does in a fresh process on this host
  parentImport, \* what the import statements do when run in the parent
  probePc,      \* where the parent stands in _initialize_libtpu_safely
  child,        \* the canary process: "none", "running", "exited"
  exitcode,     \* process.exitcode: None until the canary has terminated
  libtpu,       \* module global libtpu
  libtpu_sdk,   \* module global libtpu_sdk
  libtpu_import_status_message,  \* module global, None until assigned
  importAttempted, \* the parent has executed its import statements
  printed,      \* the status message was printed (lines 133-134)
  \* ---- metrics.py, usage ----
  chip_type,    \* the chip family the usage is asked for
  totalsResp,   \* the service's TOTAL_MEMORY response, in response order
  usagesResp,   \* the service's MEMORY_USAGE response
  dutyResp,     \* the service's DUTY_CYCLE_PCT response
  usageFn,      \* the function that was called, or None
  usageResult,  \* its outcome, or NotCalled
  \* ---- metrics.py, percentiles ----
  hist,         \* a distribution: bucket_counts, count, scale, growth_factor
  target,       \* the percentile_count argument of _get_percentile
  pctResult,    \* outcome of the _get_percentile call, or NotCalled
  \* ---- device.py, get_chip_owners ----
  procfs,       \* /proc/*/fd/*: the fd links that exist now, link path -> target
  globbed,      \* what glob.glob returned to the running call, in order
  resolved,     \* what os.readlink gave the last call for each globbed link
  ownersPc,     \* "idle" or "scanning" (between the glob and the loop)
  ownersCalls,  \* number of get_chip_owners calls begun
  prevOwners,   \* outcome of the call before the last one
  ownersResult, \* outcome of the last get_chip_owners call, or NotCalled
  \* ---- cli_helper.py, the probe counted and its consumers ----
  probeCalls,        \* calls of _initialize_libtpu_safely so far
  spawned,           \* canary processes started so far
  parentImportCount, \* executions of the parent's import statements so far
  consumerCalls,     \* calls of fetch_libtpu_version / render so far
  lastConsumer,      \* what the last consumer call did, or NotCalled
  \* ---- cli.py, the import of the query cycle ----
  cycleImport,       \* how `from libtpu import sdk` of _fetch_and_render_tables
                     \* ended in the parent, or NotCalled
  \* ---- device.py, TpuChip.from_pci_device_id and chip_path ----
  catDeviceId,    \* the device id handed to from_pci_device_id
  catSubsystemId, \* the subsystem id handed to from_pci_device_id
  catFamily,      \* what from_pci_device_id returned, or NotCalled
  pathFamily,     \* the chip type handed to chip_path
  pathIndex,      \* the index handed to chip_path
  pathResult,     \* what chip_path returned, or NotCalled
  \* ---- cli.py, print_chip_info ----
  cliStreaming, \* cli_args.streaming
  cliChip,      \* the chip type get_local_chips returned to print_chip_info
  cliCount,     \* the count it returned
  cliOwners,    \* what get_chip_owners gives the cycle
  cliUsage,     \* how metrics.get_chip_usage ends in the cycle
  cliSdk,       \* how the libtpu sdk import and metric read end in the cycle
  cliLatency,   \* what the runtime answers a transfer-latency request with
  cliPc,        \* "idle", "start", "returned" or "raised"
  cliFrame,     \* outcome of the last _fetch_and_render_tables, or NotCalled
  cliShown,     \* what was put on stdout and the screen, in order
  cliStderr,    \* the messages printed to stderr, in order
  cliRate,      \* cli_args.rate, in milliseconds
  \* ---- metrics.py, get_transfer_latency ----
  latResp,      \* the metrics of the runtime's response, in response order
  latRequests,  \* number of GetRuntimeMetric requests issued
  latResult,    \* outcome of the get_transfer_latency call, or NotCalled
  \* ---- tensorboard_uploader/uploader.py ----
  exit_flag,      \* _exit_flag.is_set()
  upload_thread,  \* _upload_thread: 0 for None, else the thread's number
  uploadThreads,  \* the threads created so far, each at "check", "sleep",
                  \* "upload" or "done"
  uploaderPc,     \* the caller: "idle", "ready" or "joining"
  uploaderLast,   \* the last call of the caller and what it did
  \* ---- device.py, get_actual_chips ----
  topo,         \* the entries of /sys/bus/pci/devices/* with their files
  topoResult    \* outcome of the get_actual_chips call, or NotCalled

scanVars == <<bus, scanResult>>
probeCounters == <<probeCalls, spawned, parentImportCount>>
consumerVars == <<consumerCalls, lastConsumer>>
probeVars == <<lib, parentImport, probePc, child, exitcode, libtpu, libtpu_sdk,
               libtpu_import_status_message, importAttempted, printed,
               probeCounters, consumerVars, cycleImport>>
usageVars == <<chip_type, totalsResp, usagesResp, dutyResp, usageFn, usageResult>>
pctVars == <<hist, target, pctResult>>
ownersVars == <<procfs, globbed, resolved, ownersPc, ownersCalls, prevOwners,
                ownersResult>>
catVars == <<catDeviceId, catSubsystemId, catFamily>>
pathVars == <<pathFamily, pathIndex, pathResult>>
topoVars == <<topo, topoResult>>
cliVars == <<cliStreaming, cliChip, cliCount, cliOwners, cliUsage, cliSdk,
             cliLatency, cliPc, cliFrame, cliShown, cliStderr, cliRate>>
latVars == <<latResp, latRequests, latResult>>
uploaderVars == <<exit_flag, upload_thread, uploadThreads, uploaderPc,
                  uploaderLast>>
vars == <<scanVars, probeVars, usageVars, pctVars, ownersVars, catVars,
          pathVars, topoVars, cliVars, latVars, uploaderVars>>

\* chip_path is called both on a scan's result and on a catalogue entry, so
\* pathVars is in neither nonScanVars nor nonCatVars.
nonScanVars == <<probeVars, usageVars, pctVars, ownersVars, catVars, topoVars,
  cliVars, latVars, uploaderVars>>
nonProbeVars == <<scanVars, usageVars, pctVars, ownersVars, catVars, pathVars,
                  topoVars,
  cliVars, latVars, uploaderVars>>
nonUsageVars == <<scanVars, probeVars, pctVars, ownersVars, catVars, pathVars,
                  topoVars,
  cliVars, latVars, uploaderVars>>
nonPctVars == <<scanVars, probeVars, usageVars, ownersVars, catVars, pathVars,
                topoVars,
  cliVars, latVars, uploaderVars>>
nonOwnersVars == <<scanVars, probeVars, usageVars, pctVars, catVars, pathVars,
                   topoVars,
  cliVars, latVars, uploaderVars>>
nonCatVars == <<scanVars, probeVars, usageVars, pctVars, ownersVars, topoVars,
  cliVars, latVars, uploaderVars>>
nonTopoVars == <<scanVars, probeVars, usageVars, pctVars, ownersVars, catVars,
                 pathVars,
  cliVars, latVars, uploaderVars>>
nonCliVars == <<scanVars, probeVars, usageVars, pctVars, ownersVars, catVars,
                pathVars, topoVars, latVars, uploaderVars>>
nonLatVars == <<scanVars, probeVars, usageVars, pctVars, ownersVars, catVars,
                pathVars, topoVars, cliVars, uploaderVars>>
nonUploaderVars == <<scanVars, probeVars, usageVars, pctVars, ownersVars,
                     catVars, pathVars, topoVars, cliVars, latVars>>

NotCalled == [kind |-> "not_called"]

None == "None"

\* ---- the values a component's variables keep while another one runs ----
IdleScan ==
  /\ bus = <<>>
  /\ scanResult = NotCalled

IdleProbe ==
  /\ lib = [kind |-> "ok"]
  /\ parentImport = "ok"
  /\ probePc = "idle"
  /\ child = "none"
  /\ exitcode = None
  /\ libtpu = None
  /\ libtpu_sdk = None
  /\ libtpu_import_status_message = None
  /\ importAttempted = FALSE
  /\ printed = FALSE
  /\ probeCalls = 0
  /\ spawned = 0
  /\ parentImportCount = 0
  /\ consumerCalls = 0
  /\ lastConsumer = NotCalled
  /\ cycleImport = NotCalled

IdleUsage ==
  /\ chip_type = None
  /\ totalsResp = <<>>
  /\ usagesResp = <<>>
  /\ dutyResp = <<>>
  /\ usageFn = None
  /\ usageResult = NotCalled

IdlePct ==
  /\ hist = None
  /\ target = 0
  /\ pctResult = NotCalled

IdleOwners ==
  /\ procfs = {}
  /\ globbed = <<>>
  /\ resolved = <<>>
  /\ ownersPc = "idle"
  /\ ownersCalls = 0
  /\ prevOwners = NotCalled
  /\ ownersResult = NotCalled

IdleCatalog ==
  /\ catDeviceId = None
  /\ catSubsystemId = None
  /\ catFamily = NotCalled

IdlePath ==
  /\ pathFamily = None
  /\ pathIndex = 0
  /\ pathResult = NotCalled

IdleTopo ==
  /\ topo = <<>>
  /\ topoResult = NotCalled

IdleCli ==
  /\ cliStreaming = FALSE
  /\ cliChip = None
  /\ cliCount = 0
  /\ cliOwners = NotCalled
  /\ cliUsage = NotCalled
  /\ cliSdk = NotCalled
  /\ cliLatency = NotCalled
  /\ cliPc = "idle"
  /\ cliFrame = NotCalled
  /\ cliShown = <<>>
  /\ cliStderr = <<>>
  /\ cliRate = 0

IdleLat ==
  /\ latResp = <<>>
  /\ latRequests = 0
  /\ latResult = NotCalled

IdleUploader ==
  /\ exit_flag = FALSE
  /\ upload_thread = 0
  /\ uploadThreads = <<>>
  /\ uploaderPc = "idle"
  /\ uploaderLast = NotCalled

(***************************************************************************)
(* device.py: the chip catalogue                                           *)
(***************************************************************************)
GOOGLE_PCI_VENDOR_ID == "0x1ae0"

\* TpuChip members with their Info tuples (name, hbm_gib, devices_per_chip).
TpuChip ==
  [ V2  |-> [name |-> "v2",  hbm_gib |-> 8,   devices_per_chip |-> 2],
    V3  |-> [name |-> "v3",  hbm_gib |-> 16,  devices_per_chip |-> 2],
    V4  |-> [name |-> "v4",  hbm_gib |-> 32,  devices_per_chip |-> 1],
    V5E |-> [name |-> "v5e", hbm_gib |-> 16,  devices_per_chip |-> 1],
    V5P |-> [name |-> "v5p", hbm_gib |-> 95,  devices_per_chip |-> 1],
    V6E |-> [name |-> "v6e", hbm_gib |-> 32,  devices_per_chip |-> 1],
    V7X |-> [name |-> "7x",  hbm_gib |-> 192, devices_per_chip |-> 2] ]

Families == DOMAIN TpuChip

\* The dict literal of from_pci_device_id.
device_id_to_device ==
  [ d \in {"0x005e", "0x0063", "0x0062", "0x006f", "0x0076"} |->
      CASE d = "0x005e" -> "V4"
        [] d = "0x0063" -> "V5E"
        [] d = "0x0062" -> "V5P"
        [] d = "0x006f" -> "V6E"
        [] d = "0x0076" -> "V7X" ]

\* A mutant of from_pci_device_id: the subsystem id is not consulted, every
\* 0x0027 device is taken for a V2.
from_pci_device_id_nosubsys(device_id, subsystem_id) ==
  IF device_id = "0x0027" THEN "V2"
  ELSE IF device_id \in DOMAIN device_id_to_device
       THEN device_id_to_device[device_id]
       ELSE None

\* TpuChip.from_pci_device_id: v2 and v3 share a device id and are told
\* apart by the subsystem id; everything else goes through the dict, whose
\* .get() yields None for an unknown key.
from_pci_device_id(device_id, subsystem_id) ==
  IF device_id = "0x0027" /\ subsystem_id = "0x004e" THEN "V2"
  ELSE IF device_id = "0x0027" /\ subsystem_id = "0x004f" THEN "V3"
  ELSE IF device_id \in DOMAIN device_id_to_device
       THEN device_id_to_device[device_id]
       ELSE None

(***************************************************************************)
(* device.py: get_local_chips                                              *)
(***************************************************************************)
\* A sysfs attribute file that does not exist (read_text raises).
Missing == "<missing>"

\* collections.Counter, kept as the sequence of [key, n] in insertion order.
CounterHas(count, k) == \E j \in 1..Len(count) : count[j].key = k

CounterInc(count, k) ==
  IF CounterHas(count, k)
  THEN [j \in 1..Len(count) |->
          IF count[j].key = k THEN [key |-> k, n |-> count[j].n + 1]
          ELSE count[j]]
  ELSE Append(count, [key |-> k, n |-> 1])

\* Counter.most_common()[0]: the largest count, the earliest inserted on a tie.
MostCommonFirst(count) ==
  LET best == CHOOSE j \in 1..Len(count) :
                /\ \A m \in 1..Len(count) : count[m].n <= count[j].n
                /\ \A m \in 1..(j-1) : count[m].n < count[j].n
  IN <<count[best].key, count[best].n>>

Raise(exc) == [kind |-> "raise", exc |-> exc]
Return(v)  == [kind |-> "return", value |-> v]

\* The proper base classes, below Exception, of the exception classes that
\* have one; a class not named here derives from Exception directly.
ExceptionBases ==
  [c \in {"ModuleNotFoundError", "ZipImportError", "NotImplementedError",
          "RecursionError", "BrokenBarrierError", "FrozenInstanceError",
          "FileNotFoundError", "PermissionError", "KeyError", "IndexError",
          "ZeroDivisionError", "CalledProcessError"} |->
     CASE c \in {"ModuleNotFoundError", "ZipImportError"} -> {"ImportError"}
       [] c \in {"NotImplementedError", "RecursionError", "BrokenBarrierError"}
            -> {"RuntimeError"}
       [] c = "FrozenInstanceError" -> {"AttributeError"}
       [] c \in {"FileNotFoundError", "PermissionError"} -> {"OSError"}
       [] c \in {"KeyError", "IndexError"} -> {"LookupError"}
       [] c = "ZeroDivisionError" -> {"ArithmeticError"}
       [] c = "CalledProcessError" -> {"SubprocessError"}]

\* isinstance(e, cls) for an exception of class exc.
IsInstance(exc, cls) ==
  \/ exc = cls
  \/ cls = "Exception"
  \/ exc \in DOMAIN ExceptionBases /\ cls \in ExceptionBases[exc]

\* `except cls` for one of the classes of handlers catches the exception.
Caught(exc, handlers) == \E cls \in handlers : IsInstance(exc, cls)

\* The for loop of get_local_chips from entry i on; yields the Counter, or
\* the exception a read_text() of a missing file raises.
RECURSIVE ScanLoop(_, _, _)
ScanLoop(entries, i, count) ==
  IF i > Len(entries) THEN [kind |-> "counted", count |-> count]
  ELSE LET e == entries[i] IN
    IF e.vendor = Missing THEN Raise("FileNotFoundError")
    ELSE IF e.vendor # GOOGLE_PCI_VENDOR_ID THEN ScanLoop(entries, i + 1, count)
    ELSE IF e.device = Missing \/ e.subsystem = Missing
         THEN Raise("FileNotFoundError")
    ELSE LET chip == from_pci_device_id(e.device, e.subsystem) IN
         IF chip # None
         THEN ScanLoop(entries, i + 1, CounterInc(count, chip))
         ELSE ScanLoop(entries, i + 1, count)

\* A mutant of get_local_chips: the single-family assertion is gone and the
\* most common family is returned.
get_local_chips_noassert(entries) ==
  LET r == ScanLoop(entries, 1, <<>>) IN
  IF r.kind = "raise" THEN r
  ELSE IF Len(r.count) > 0 THEN Return(MostCommonFirst(r.count))
  ELSE Return(<<None, 0>>)

\* A mutant of get_local_chips: the vendor check is gone, so an entry of
\* another vendor with a known device id is tallied too.
RECURSIVE ScanLoopAnyVendor(_, _, _)
ScanLoopAnyVendor(entries, i, count) ==
  IF i > Len(entries) THEN [kind |-> "counted", count |-> count]
  ELSE LET e == entries[i] IN
    IF e.vendor = Missing \/ e.device = Missing \/ e.subsystem = Missing
    THEN Raise("FileNotFoundError")
    ELSE LET chip == from_pci_device_id(e.device, e.subsystem) IN
         IF chip # None
         THEN ScanLoopAnyVendor(entries, i + 1, CounterInc(count, chip))
         ELSE ScanLoopAnyVendor(entries, i + 1, count)

get_local_chips_anyvendor(entries) ==
  LET r == ScanLoopAnyVendor(entries, 1, <<>>) IN
  IF r.kind = "raise" THEN r
  ELSE IF Len(r.count) > 1 THEN Raise("AssertionError")
  ELSE IF Len(r.count) > 0 THEN Return(MostCommonFirst(r.count))
  ELSE Return(<<None, 0>>)

\* get_local_chips: tally, assert len(count) <= 1, return the only pair or
\* (None, 0).
get_local_chips(entries) ==
  LET r == ScanLoop(entries, 1, <<>>) IN
  IF r.kind = "raise" THEN r
  ELSE IF Len(r.count) > 1 THEN Raise("AssertionError")
  ELSE IF Len(r.count) > 0 THEN Return(MostCommonFirst(r.count))
  ELSE Return(<<None, 0>>)

(***************************************************************************)
(* device.py: chip_path                                                    *)
(***************************************************************************)
\* Paths are sequences of one-character strings.
P_proc == <<"/", "p", "r", "o", "c", "/">>
P_fd == <<"/", "f", "d", "/">>
P_dev == <<"/", "d", "e", "v", "/">>
P_accel == <<"a", "c", "c", "e", "l">>
P_vfio == <<"v", "f", "i", "o", "/">>
P_null == <<"n", "u", "l", "l">>

Digits == {"0", "1", "2", "3", "4", "5", "6", "7", "8", "9"}

DigitChar(d) ==
  CASE d = 0 -> "0" [] d = 1 -> "1" [] d = 2 -> "2" [] d = 3 -> "3"
    [] d = 4 -> "4" [] d = 5 -> "5" [] d = 6 -> "6" [] d = 7 -> "7"
    [] d = 8 -> "8" [] d = 9 -> "9"

\* The "{index}" of the f-strings: the decimal digits of a natural number.
RECURSIVE FormatInt(_)
FormatInt(n) ==
  IF n < 10 THEN <<DigitChar(n)>>
  ELSE FormatInt(n \div 10) \o <<DigitChar(n % 10)>>

\* chip_path with the newest family left out of the vfio set.
chip_path_no_v7x(chip, index) ==
  IF chip \in {"V5E", "V5P", "V6E"}
  THEN P_dev \o P_vfio \o FormatInt(index)
  ELSE P_dev \o P_accel \o FormatInt(index)

\* chip_path with every family on the accel driver.
chip_path_accel_only(chip, index) == P_dev \o P_accel \o FormatInt(index)

\* chip_path(chip_type, index), lines 188-193.
chip_path(chip, index) ==
  IF chip \in {"V5E", "V5P", "V6E", "V7X"}
  THEN P_dev \o P_vfio \o FormatInt(index)
  ELSE P_dev \o P_accel \o FormatInt(index)

\* ---- the bus trees the scan is run on ----
MaxBusLen == 3

DeviceIds == {"0x0027", "0x005e", "0x0063", "0x0062", "0x006f", "0x0076", "0x9999"}
SubsystemIds == {"0x004e", "0x004f", "0x0000"}

Entry(v, d, s) == [vendor |-> v, device |-> d, subsystem |-> s]

\* Accelerator-vendor entries (the shared device id with each subsystem id,
\* the other ids with two), an entry of another vendor that carries a known
\* id pair, and entries with one attribute file missing.
BusEntries ==
     {Entry(GOOGLE_PCI_VENDOR_ID, "0x0027", s) : s \in SubsystemIds}
  \cup {Entry(GOOGLE_PCI_VENDOR_ID, d, s) :
          d \in DeviceIds \ {"0x0027"}, s \in {"0x0000", "0x004e"}}
  \cup {Entry("0x1234", "0x0027", "0x004e"), Entry("0x1234", "0x0000", "0x0000")}
  \cup {Entry(Missing, "0x005e", "0x0000"),
        Entry(GOOGLE_PCI_VENDOR_ID, Missing, "0x0000"),
        Entry(GOOGLE_PCI_VENDOR_ID, "0x005e", Missing)}

MaxRepeat == 4

\* A host's chips are alike: the same entry up to MaxRepeat times.
RepeatedTrees ==
  {[j \in 1..n |-> e] : e \in BusEntries, n \in 1..MaxRepeat}

BusTrees == UNION {[1..n -> BusEntries] : n \in 0..MaxBusLen} \cup RepeatedTrees

InitScan ==
  /\ bus \in BusTrees
  /\ scanResult = NotCalled
  /\ IdleProbe
  /\ IdleUsage
  /\ IdlePct
  /\ IdleOwners
  /\ IdleCatalog
  /\ IdlePath
  /\ IdleTopo
  /\ IdleCli
  /\ IdleLat
  /\ IdleUploader

\* One call of get_local_chips() on the current bus tree.
GetLocalChips ==
  /\ scanResult = NotCalled
  /\ scanResult' = get_local_chips(bus)
  /\ UNCHANGED <<bus, pathVars, nonScanVars>>

\* chip_path(chip_type, index) for an index of range(count), as the chip
\* tables do with the pair the scan returned (cli.py line 62).
ChipPathOfScan ==
  /\ scanResult.kind = "return"
  /\ scanResult.value[1] # None
  /\ pathResult = NotCalled
  /\ \E index \in 0..(scanResult.value[2] - 1) :
       /\ pathFamily' = scanResult.value[1]
       /\ pathIndex' = index
       /\ pathResult' = Return(chip_path(scanResult.value[1], index))
  /\ UNCHANGED <<bus, scanResult, nonScanVars>>

NextScan == GetLocalChips \/ ChipPathOfScan

SpecScan == InitScan /\ [][NextScan]_vars

\* ---- what a bus tree holds, stated independently of the scan ----
Readable(e) == e.vendor # Missing /\ e.device # Missing /\ e.subsystem # Missing

AllReadable(entries) == \A j \in 1..Len(entries) : Readable(entries[j])

\* The recognized accelerator entries: accelerator vendor and an id pair of
\* the catalogue.
Recognized(e) ==
  /\ Readable(e)
  /\ e.vendor = GOOGLE_PCI_VENDOR_ID
  /\ \/ e.device = "0x0027" /\ e.subsystem \in {"0x004e", "0x004f"}
     \/ e.device \in {"0x005e", "0x0063", "0x0062", "0x006f", "0x0076"}

FamilyOf(e) ==
  CASE e.device = "0x0027" /\ e.subsystem = "0x004e" -> "V2"
    [] e.device = "0x0027" /\ e.subsystem = "0x004f" -> "V3"
    [] e.device = "0x005e" -> "V4"
    [] e.device = "0x0063" -> "V5E"
    [] e.device = "0x0062" -> "V5P"
    [] e.device = "0x006f" -> "V6E"
    [] e.device = "0x0076" -> "V7X"
    [] OTHER -> None

RecognizedAt(entries) == {j \in 1..Len(entries) : Recognized(entries[j])}

FamiliesOn(entries) == {FamilyOf(entries[j]) : j \in RecognizedAt(entries)}

\* C1: a bus tree with recognized entries of two or more chip families makes
\* get_local_chips raise; it returns no (family, count) pair.
C1_MixedFamiliesRaise ==
  (scanResult # NotCalled /\ Cardinality(FamiliesOn(bus)) >= 2)
    => scanResult.kind = "raise"

C1_Witness ==
  /\ scanResult # NotCalled
  /\ AllReadable(bus)
  /\ Cardinality(FamiliesOn(bus)) >= 2
  /\ scanResult = Raise("AssertionError")

\* C2: on a readable bus tree whose recognized entries all are of one family
\* F and number N >= 1 the scan returns (F, N), entries of another vendor or
\* with an unrecognized id pair not being counted; with no recognized entry
\* it returns (None, 0).
C2_SingleFamilyCount ==
  (scanResult # NotCalled /\ AllReadable(bus)) =>
    /\ Cardinality(FamiliesOn(bus)) = 1 =>
         \E f \in FamiliesOn(bus) :
           scanResult = Return(<<f, Cardinality(RecognizedAt(bus))>>)
    /\ FamiliesOn(bus) = {} => scanResult = Return(<<None, 0>>)

C2_Witness ==
  /\ scanResult # NotCalled
  /\ AllReadable(bus)
  /\ Cardinality(FamiliesOn(bus)) = 1
  /\ Cardinality(RecognizedAt(bus)) = 2
  /\ Len(bus) = 3
  /\ \E j \in 1..Len(bus) : bus[j].vendor # GOOGLE_PCI_VENDOR_ID
  /\ scanResult.kind = "return"

\* C16: a bus entry whose vendor, device or subsystem_device file is missing
\* is skipped: with such an entry on the tree the scan does not raise and
\* returns the tally of the readable entries (here of at most one family).
C16_UnreadableSkipped ==
  (scanResult # NotCalled /\ ~AllReadable(bus)
     /\ Cardinality(FamiliesOn(bus)) <= 1) =>
    /\ scanResult.kind = "return"
    /\ Cardinality(FamiliesOn(bus)) = 1 =>
         \E f \in FamiliesOn(bus) :
           scanResult = Return(<<f, Cardinality(RecognizedAt(bus))>>)
    /\ FamiliesOn(bus) = {} => scanResult = Return(<<None, 0>>)

\* The families with one device per chip and 32 GiB of HBM.
OneDevice32GiB ==
  {f \in Families :
     TpuChip[f].devices_per_chip = 1 /\ TpuChip[f].hbm_gib = 32}

\* The bus tree has exactly four entries, all recognized and of family f.
FourOf(f) ==
  /\ Len(bus) = 4
  /\ RecognizedAt(bus) = 1..4
  /\ FamiliesOn(bus) = {f}

PathOfChip2Called == pathResult # NotCalled /\ pathIndex = 2

Dev_accel2 == <<"/", "d", "e", "v", "/", "a", "c", "c", "e", "l", "2">>
Dev_vfio2 == <<"/", "d", "e", "v", "/", "v", "f", "i", "o", "/", "2">>

\* C19 as stated: for every family with one device per chip and 32 GiB, four
\* entries of it give (family, 4) and chip_path(family, 2) = /dev/accel2.
C19_AccelPathForEvery32GiBFamily ==
  \A f \in OneDevice32GiB :
    (scanResult # NotCalled /\ FourOf(f)) =>
      /\ scanResult = Return(<<f, 4>>)
      /\ PathOfChip2Called => pathResult = Return(Dev_accel2)

\* C19: the families with one device per chip and 32 GiB are V4 and V6E; four
\* entries of either give (family, 4); chip_path(family, 2) is /dev/accel2
\* for V4 and /dev/vfio/2 for V6E.
C19_PathByDriverOf32GiBFamily ==
  /\ OneDevice32GiB = {"V4", "V6E"}
  /\ \A f \in OneDevice32GiB :
       (scanResult # NotCalled /\ FourOf(f)) =>
         /\ scanResult = Return(<<f, 4>>)
         /\ PathOfChip2Called =>
              /\ pathFamily = f
              /\ f = "V4" => pathResult = Return(Dev_accel2)
              /\ f = "V6E" => pathResult = Return(Dev_vfio2)

C19_Witness ==
  /\ FourOf("V6E")
  /\ scanResult = Return(<<"V6E", 4>>)
  /\ PathOfChip2Called
  /\ pathResult = Return(Dev_vfio2)

C19_WitnessV4 ==
  /\ FourOf("V4")
  /\ scanResult = Return(<<"V4", 4>>)
  /\ PathOfChip2Called
  /\ pathResult = Return(Dev_accel2)

(***************************************************************************)
(* cli_helper.py: _check_library_safety and _initialize_libtpu_safely      *)
(***************************************************************************)
SIGSEGV == 11

\* Signals whose default action kills the process (Linux numbering):
\* HUP INT QUIT ILL ABRT BUS FPE KILL SEGV PIPE ALRM TERM.
KillingSignals == {1, 2, 3, 4, 6, 7, 8, 9, 11, 13, 14, 15}

\* Exit codes the import may end the canary with through sys.exit()/os._exit().
LibExitCodes == {2, 11, 255}

\* What `import libtpu; from libtpu import sdk` does in a fresh process:
\*   ok            both imports succeed
\*   absent        the package is not installed (ModuleNotFoundError, an
\*                 ImportError)
\*   import_error  the package is installed and the import raises ImportError
\*                 (a shared object does not load, libtpu has no sdk)
\*   exception     the package is installed and the import raises another
\*                 exception
\*   signal        the import kills the process with signal sig
\*   exit          the import ends the process with exit code code
LibStates ==
       {[kind |-> k] : k \in {"ok", "absent", "import_error", "exception"}}
  \cup {[kind |-> "signal", sig |-> s] : s \in KillingSignals}
  \cup {[kind |-> "exit", code |-> c] : c \in LibExitCodes}

\* What the two import statements of the parent do (lines 104-105).
ParentImports == {"ok", "libtpu_import_error", "sdk_import_error"}

\* _check_library_safety run as the target of a multiprocessing.Process: the
\* exit code the canary terminates with. ImportError is caught and turned
\* into sys.exit(1); any other exception leaves the target uncaught, which
\* multiprocessing reports as exit code 1 too; a killing signal s gives -s.
CanaryExitCode(l) ==
  CASE l.kind = "ok"           -> 0
    [] l.kind = "absent"       -> 1
    [] l.kind = "import_error" -> 1
    [] l.kind = "exception"    -> 1
    [] l.kind = "signal"       -> 0 - l.sig
    [] l.kind = "exit"         -> l.code

\* The return values of _initialize_libtpu_safely.
OkMessage == [text |-> "OK"]
ImportFailedMessage ==
  [text |-> "ERROR: Import of libtpu failed despite safety check passing."]
SegfaultMessage ==
  [text |-> "WARNING: libtpu segfaulted during canary process. TPU may not work. "]
NotFoundMessage == [text |-> "ERROR: libtpu not found."]
UnknownExitMessage(code) ==
  [text |-> "Check failed with unknown exit code: ", code |-> code]

\* line 99: process.exitcode == 0
CheckPassed(code) == code = 0

\* A mutant of IsSegfault: the exit code is compared with the signal number
\* instead of its negation.
IsSegfault_positive(code) == code = SIGSEGV

\* line 116: process.exitcode == -signal.SIGSEGV
IsSegfault(code) == code = 0 - SIGSEGV

\* line 123: process.exitcode == 1
IsNotFound(code) == code = 1

\* cli_helper is being imported: the globals are None (lines 36-37) and line
\* 132 is about to call _initialize_libtpu_safely.
InitProbe ==
  /\ lib \in LibStates
  /\ parentImport \in ParentImports
  /\ lib.kind # "ok" => parentImport = "ok"
  /\ probePc = "start"
  /\ child = "none"
  /\ exitcode = None
  /\ libtpu = None
  /\ libtpu_sdk = None
  /\ libtpu_import_status_message = None
  /\ importAttempted = FALSE
  /\ printed = FALSE
  /\ probeCalls = 0
  /\ spawned = 0
  /\ parentImportCount = 0
  /\ consumerCalls = 0
  /\ lastConsumer = NotCalled
  /\ cycleImport = NotCalled
  /\ IdleScan
  /\ IdleUsage
  /\ IdlePct
  /\ IdleOwners
  /\ IdleCatalog
  /\ IdlePath
  /\ IdleTopo
  /\ IdleCli
  /\ IdleLat
  /\ IdleUploader

\* lines 95-96: the parent creates and starts the canary process.
ProcessStart ==
  /\ probePc = "start"
  /\ probePc' = "join"
  /\ child' = "running"
  /\ probeCalls' = probeCalls + 1
  /\ spawned' = spawned + 1
  /\ UNCHANGED <<lib, parentImport, cycleImport, exitcode, libtpu, libtpu_sdk,
                 libtpu_import_status_message, importAttempted, printed, parentImportCount, consumerVars,
                 nonProbeVars>>

\* The canary runs _check_library_safety and terminates.
CanaryRun ==
  /\ child = "running"
  /\ child' = "exited"
  /\ exitcode' = CanaryExitCode(lib)
  /\ UNCHANGED <<lib, parentImport, cycleImport, probePc, libtpu, libtpu_sdk,
                 libtpu_import_status_message, importAttempted, printed, probeCounters, consumerVars,
                 nonProbeVars>>

\* line 97: process.join() returns once the canary has terminated.
ProcessJoin ==
  /\ probePc = "join"
  /\ child = "exited"
  /\ probePc' = "dispatch"
  /\ UNCHANGED <<lib, parentImport, cycleImport, child, exitcode, libtpu, libtpu_sdk,
                 libtpu_import_status_message, importAttempted, printed, probeCounters, consumerVars,
                 nonProbeVars>>

\* lines 99-115: the check passed, the parent imports for real.
ImportInParent ==
  /\ probePc = "dispatch"
  /\ CheckPassed(exitcode)
  /\ importAttempted' = TRUE
  /\ parentImportCount' = parentImportCount + 1
  /\ IF parentImport = "ok"
     THEN /\ libtpu' = "module libtpu"
          /\ libtpu_sdk' = "module libtpu.sdk"
          /\ libtpu_import_status_message' = OkMessage
     ELSE /\ UNCHANGED <<libtpu, libtpu_sdk>>
          /\ libtpu_import_status_message' = ImportFailedMessage
  /\ probePc' = "returned"
  /\ UNCHANGED <<lib, parentImport, cycleImport, child, exitcode, printed, probeCalls, spawned, consumerVars,
                 nonProbeVars>>

\* lines 116-122: the canary segfaulted.
ReturnSegfault ==
  /\ probePc = "dispatch"
  /\ ~CheckPassed(exitcode)
  /\ IsSegfault(exitcode)
  /\ libtpu_import_status_message' = SegfaultMessage
  /\ probePc' = "returned"
  /\ UNCHANGED <<lib, parentImport, cycleImport, child, exitcode, libtpu, libtpu_sdk,
                 importAttempted, printed, probeCounters, consumerVars,
                 nonProbeVars>>

\* lines 123-126: exit code 1.
ReturnNotFound ==
  /\ probePc = "dispatch"
  /\ ~CheckPassed(exitcode)
  /\ ~IsSegfault(exitcode)
  /\ IsNotFound(exitcode)
  /\ libtpu_import_status_message' = NotFoundMessage
  /\ probePc' = "returned"
  /\ UNCHANGED <<lib, parentImport, cycleImport, child, exitcode, libtpu, libtpu_sdk,
                 importAttempted, printed, probeCounters, consumerVars,
                 nonProbeVars>>

\* lines 128-129: any other exit code.
ReturnUnknown ==
  /\ probePc = "dispatch"
  /\ ~CheckPassed(exitcode)
  /\ ~IsSegfault(exitcode)
  /\ ~IsNotFound(exitcode)
  /\ libtpu_import_status_message' = UnknownExitMessage(exitcode)
  /\ probePc' = "returned"
  /\ UNCHANGED <<lib, parentImport, cycleImport, child, exitcode, libtpu, libtpu_sdk,
                 importAttempted, printed, probeCounters, consumerVars,
                 nonProbeVars>>

\* lines 133-134: anything but "OK" is printed.
ReportStatus ==
  /\ probePc = "returned"
  /\ printed' = (libtpu_import_status_message # OkMessage)
  /\ probePc' = "done"
  /\ UNCHANGED <<lib, parentImport, cycleImport, child, exitcode, libtpu, libtpu_sdk,
                 libtpu_import_status_message, importAttempted, probeCounters, consumerVars,
                 nonProbeVars>>

MaxConsumerCalls == 2

\* The module has been imported: its functions can be called.
ModuleLoaded == probePc = "done"

\* The parent process has not been ended by the import of its query cycle.
ParentAlive == cycleImport.kind \notin {"killed", "exited"}

\* What reading libtpu.__version__ gives for a stored module: the version,
\* or AttributeError for a module without the attribute.
VersionReads == {Return("version"), Raise("AttributeError")}

\* How `pip list` ends (lines 229-244): a libtpu line with a version, no
\* such line, a non-zero exit, or pip missing.
PipOutcomes ==
  {Return("listed"), Return("not listed"), Raise("CalledProcessError"),
   Raise("FileNotFoundError")}

\* lines 228-244: the version `pip list` gives, or the text for its failure.
pip_version(pip) ==
  IF pip.kind = "return"
  THEN (IF pip.value = "listed" THEN "version from pip"
        ELSE "unknown (libtpu not found)")
  ELSE IF IsInstance(pip.exc, "CalledProcessError")
  THEN "unknown (error running pip list)"
  ELSE "unknown (unexpected error getting libtpu version)"

\* fetch_libtpu_version, lines 219-244: libtpu.__version__ of the stored
\* module; with no module stored, or an exception of the read, `pip list`.
fetch_libtpu_version(stored, read, pip) ==
  IF stored /\ read.kind = "return"
  THEN [via |-> "handle", result |-> read.value]
  ELSE [via |-> "pip list", result |-> pip_version(pip)]

\* One call of fetch_libtpu_version().
FetchLibtpuVersion ==
  /\ ModuleLoaded
  /\ ParentAlive
  /\ consumerCalls < MaxConsumerCalls
  /\ consumerCalls' = consumerCalls + 1
  /\ \E read \in VersionReads, pip \in PipOutcomes :
       LET r == fetch_libtpu_version(libtpu # None, read, pip) IN
       lastConsumer' = [consumer |-> "fetch_libtpu_version",
                        handle |-> libtpu # None,
                        via |-> r.via, result |-> r.result]
  /\ UNCHANGED <<lib, parentImport, cycleImport, probePc, child, exitcode, libtpu, libtpu_sdk,
                 libtpu_import_status_message, importAttempted, printed,
                 probeCounters, nonProbeVars>>

\* How get_metric("tensorcore_util").data() on the stored sdk ends: data, no
\* data, no monitoring module, and exceptions of get_metric.
SdkReads ==
  {Return(<<7>>), Return(<<>>), Raise("AttributeError"),
   Raise("NotImplementedError"), Raise("ValueError")}

\* TensorCoreUtilizationTable.render(count), lines 657-720: with no sdk
\* stored ImportError is raised and its panel returned; the handlers of
\* lines 675-705 are tried in the order ImportError, AttributeError,
\* RuntimeError; any other exception leaves the call.
render(stored, read) ==
  IF ~stored THEN [via |-> "ImportError panel", result |-> Return("panel")]
  ELSE IF read.kind = "return"
  THEN [via |-> "handle",
        result |-> Return(IF read.value # <<>> THEN "table" ELSE "N/A table")]
  ELSE IF Caught(read.exc, {"ImportError", "AttributeError"})
  THEN [via |-> "handle", result |-> Return("panel")]
  ELSE IF IsInstance(read.exc, "RuntimeError")
  THEN [via |-> "handle", result |-> Return("panel and N/A table")]
  ELSE [via |-> "handle", result |-> read]

\* A render that imports libtpu.sdk itself when no handle is stored.
RenderTensorCore_reimport ==
  /\ ModuleLoaded
  /\ ParentAlive
  /\ consumerCalls < MaxConsumerCalls
  /\ consumerCalls' = consumerCalls + 1
  /\ \E read \in SdkReads :
       LET r == render(libtpu_sdk # None, read) IN
       lastConsumer' = [consumer |-> "TensorCoreUtilizationTable.render",
                        handle |-> libtpu_sdk # None,
                        via |-> r.via, result |-> r.result]
  /\ parentImportCount' =
       IF libtpu_sdk # None THEN parentImportCount ELSE parentImportCount + 1
  /\ UNCHANGED <<lib, parentImport, cycleImport, probePc, child, exitcode, libtpu, libtpu_sdk,
                 libtpu_import_status_message, importAttempted, printed,
                 probeCalls, spawned, nonProbeVars>>

\* One call of TensorCoreUtilizationTable.render(count).
RenderTensorCore ==
  /\ ModuleLoaded
  /\ ParentAlive
  /\ consumerCalls < MaxConsumerCalls
  /\ consumerCalls' = consumerCalls + 1
  /\ \E read \in SdkReads :
       LET r == render(libtpu_sdk # None, read) IN
       lastConsumer' = [consumer |-> "TensorCoreUtilizationTable.render",
                        handle |-> libtpu_sdk # None,
                        via |-> r.via, result |-> r.result]
  /\ UNCHANGED <<lib, parentImport, cycleImport, probePc, child, exitcode, libtpu, libtpu_sdk,
                 libtpu_import_status_message, importAttempted, printed,
                 probeCounters, nonProbeVars>>

\* cli.py line 143, `from libtpu import sdk` in _fetch_and_render_tables,
\* executed in the parent, the process that imported cli_helper at line 26.
\* With the modules already imported by lines 104-105 of cli_helper.py the
\* statement finds them in sys.modules; after a failed import there it fails
\* the same way; after a check that did not pass it is the first import of
\* libtpu in the parent and does what the import does in a fresh process:
\*   imported     sdk is bound
\*   ImportError  ImportError is raised; line 159 turns it into a panel
\*   raised       another exception is raised by the import
\*   killed       the import kills the parent with signal sig
\*   exited       the import ends the parent with exit code code
import_sdk_in_cycle(l, imported, parent_import) ==
  IF imported THEN [kind |-> "imported"]
  ELSE CASE l.kind = "ok" ->
              (IF parent_import = "ok" THEN [kind |-> "imported"]
               ELSE [kind |-> "ImportError"])
         [] l.kind \in {"absent", "import_error"} -> [kind |-> "ImportError"]
         [] l.kind = "exception" -> [kind |-> "raised"]
         [] l.kind = "signal" -> [kind |-> "killed", sig |-> l.sig]
         [] l.kind = "exit" -> [kind |-> "exited", code |-> l.code]

\* The TensorCore section of the first query cycle of print_chip_info
\* reaches its import (cli.py lines 141-143). Nothing before that line reads
\* libtpu_import_status_message, process.exitcode or the handles: the
\* statement runs whatever the canary's exit status was. The cycle is the only
\* one of the process (line 205 ends it), so the statement runs at most once.
\* The local name sdk is bound; the globals of cli_helper are not assigned.
ImportSdkInCycle ==
  /\ ModuleLoaded
  /\ cycleImport = NotCalled
  /\ cycleImport' = import_sdk_in_cycle(lib, libtpu_sdk # None, parentImport)
  /\ UNCHANGED <<lib, parentImport, probePc, child, exitcode, libtpu, libtpu_sdk,
                 libtpu_import_status_message, importAttempted, printed,
                 probeCounters, consumerVars, nonProbeVars>>

NextProbe ==
  \/ ProcessStart
  \/ CanaryRun
  \/ ProcessJoin
  \/ ImportInParent
  \/ ReturnSegfault
  \/ ReturnNotFound
  \/ ReturnUnknown
  \/ ReportStatus
  \/ FetchLibtpuVersion
  \/ RenderTensorCore
  \/ ImportSdkInCycle

SpecProbe == InitProbe /\ [][NextProbe]_vars

ProbeReturned == probePc \in {"returned", "done"}

\* The parent has executed an import statement of libtpu: lines 104-105 of
\* cli_helper.py, or line 143 of cli.py.
ParentImported == importAttempted \/ cycleImport # NotCalled

\* C3: the parent process imports libtpu only once the canary has terminated,
\* and only with exit code 0; with any other exit status the parent never
\* attempts the import and libtpu / libtpu_sdk stay None.
C3_ParentImportsOnlyAfterCleanExit ==
  /\ ParentImported => (child = "exited" /\ exitcode = 0)
  /\ (libtpu # None \/ libtpu_sdk # None) => (child = "exited" /\ exitcode = 0)
  /\ (ModuleLoaded /\ exitcode # 0) =>
       (~ParentImported /\ libtpu = None /\ libtpu_sdk = None)

\* What holds of C3: the import statements of _initialize_libtpu_safely run
\* only once the canary has terminated with exit code 0, every import of the
\* parent comes after the canary's termination, and with any other exit
\* status libtpu / libtpu_sdk stay None for good.
C3_ImportOnlyAfterCleanExit ==
  /\ importAttempted => (child = "exited" /\ exitcode = 0)
  /\ ParentImported => child = "exited"
  /\ (libtpu # None \/ libtpu_sdk # None) => (child = "exited" /\ exitcode = 0)
  /\ (ProbeReturned /\ exitcode # 0) =>
       (~importAttempted /\ libtpu = None /\ libtpu_sdk = None)

\* The canary was killed by SIGSEGV, the warning was printed, and the import
\* of the query cycle then killed the parent the same way.
C3_ParentKilledAfterWarning ==
  /\ cycleImport.kind = "killed"
  /\ cycleImport.sig = SIGSEGV
  /\ exitcode = 0 - SIGSEGV
  /\ libtpu_import_status_message = SegfaultMessage
  /\ printed
  /\ ~importAttempted

\* C4 as claimed: whenever a signal kills the canary the probe returns the
\* child-crashed result (the segfault warning), without importing in the
\* parent.
C4_AnySignalIsChildCrashed ==
  (ProbeReturned /\ lib.kind = "signal") =>
    /\ libtpu_import_status_message = SegfaultMessage
    /\ ~importAttempted

\* C4 amended: whenever a signal kills the canary the probe returns a message
\* and does not import in the parent; the message is the segfault warning
\* exactly when the signal is SIGSEGV, and for every other signal s it is the
\* unknown-exit-code message carrying -s.
C4_SignalHandled ==
  /\ (ProbeReturned /\ lib.kind = "signal") =>
       /\ ~importAttempted
       /\ libtpu = None /\ libtpu_sdk = None
       /\ IF lib.sig = SIGSEGV
          THEN libtpu_import_status_message = SegfaultMessage
          ELSE libtpu_import_status_message = UnknownExitMessage(0 - lib.sig)
       /\ probePc = "done" => printed
  /\ (probePc = "dispatch" /\ lib.kind = "signal") =>
       ENABLED (ReturnSegfault \/ ReturnUnknown)

C4_Witness ==
  /\ probePc = "done"
  /\ lib.kind = "signal"
  /\ lib.sig # SIGSEGV
  /\ libtpu_import_status_message = UnknownExitMessage(0 - lib.sig)

\* C5: the not-installed result is returned only when the library is absent,
\* and the crashed, not-installed and incompatible outcomes never share a
\* result.
C5_NotFoundOnlyWhenAbsent ==
  (ProbeReturned /\ libtpu_import_status_message = NotFoundMessage)
    => lib.kind = "absent"

\* C22: in one process _initialize_libtpu_safely runs at most once and starts
\* exactly one canary, returning only after the canary has terminated; the
\* parent's import statements run at most once, inside the probe; calls of
\* fetch_libtpu_version and TensorCoreUtilizationTable.render start no
\* canary, import nothing and use the stored handle whenever there is one
\* (fetch_libtpu_version turning to `pip list` when there is none, or when
\* the stored module has no version to read).
C22_ProbedOnceAndReused ==
  /\ probeCalls <= 1 /\ spawned = probeCalls
  /\ ProbeReturned => (probeCalls = 1 /\ spawned = 1 /\ child = "exited")
  /\ parentImportCount = (IF importAttempted THEN 1 ELSE 0)
  /\ consumerCalls > 0 =>
       /\ ModuleLoaded /\ probeCalls = 1 /\ spawned = 1
       /\ lastConsumer.handle =
            (IF lastConsumer.consumer = "fetch_libtpu_version"
             THEN libtpu # None ELSE libtpu_sdk # None)
       /\ lastConsumer.consumer = "fetch_libtpu_version" =>
            /\ lastConsumer.via = "handle" => libtpu # None
            /\ libtpu = None => lastConsumer.via = "pip list"
       /\ lastConsumer.consumer = "TensorCoreUtilizationTable.render" =>
            (lastConsumer.via = "handle" <=> libtpu_sdk # None)
       /\ (libtpu # None \/ libtpu_sdk # None) => exitcode = 0

\* Two consumer calls after a probe whose canary found no library: still one
\* probe, one canary, no import in the parent.
C22_Witness ==
  /\ consumerCalls = 2
  /\ lastConsumer.consumer = "TensorCoreUtilizationTable.render"
  /\ lastConsumer.via = "ImportError panel"
  /\ exitcode = 1
  /\ probeCalls = 1 /\ spawned = 1 /\ parentImportCount = 0

C22_WitnessHandle ==
  /\ consumerCalls = 2
  /\ lastConsumer.consumer = "fetch_libtpu_version"
  /\ lastConsumer.via = "handle"
  /\ probeCalls = 1 /\ spawned = 1 /\ parentImportCount = 1

(***************************************************************************)
(* metrics.py: get_chip_usage, get_chip_usage_new;                         *)
(* cli_helper.py: get_device_usage                                         *)
(***************************************************************************)
\* One tpu_metrics.Metric of a gauge response: attribute.value.int_attr (the
\* device id) and the gauge value.
Metric(id, gauge) == [int_attr |-> id, gauge |-> gauge]

\* sorted(..., key=lambda m: m.attribute.value.int_attr): a stable sort,
\* done here by insertion from the left.
RECURSIVE InsertById(_, _)
InsertById(sortedSeq, m) ==
  IF sortedSeq = <<>> THEN <<m>>
  ELSE IF sortedSeq[Len(sortedSeq)].int_attr <= m.int_attr
       THEN Append(sortedSeq, m)
       ELSE Append(InsertById(SubSeq(sortedSeq, 1, Len(sortedSeq) - 1), m),
                   sortedSeq[Len(sortedSeq)])

RECURSIVE sorted_metric_response(_)
sorted_metric_response(resp) ==
  IF resp = <<>> THEN <<>>
  ELSE InsertById(sorted_metric_response(SubSeq(resp, 1, Len(resp) - 1)),
                  resp[Len(resp)])

\* A mutant of RepeatEach: nothing is repeated.
RepeatEach_once(seq, k) == seq

\* itertools.chain.from_iterable(itertools.repeat(d, k) for d in seq)
RECURSIVE RepeatEach(_, _)
RepeatEach(seq, k) ==
  IF seq = <<>> THEN <<>>
  ELSE [j \in 1..k |-> seq[1]] \o RepeatEach(Tail(seq), k)

Usage(device_id, memory_usage, total_memory, duty_cycle_pct) ==
  [device_id |-> device_id, memory_usage |-> memory_usage,
   total_memory |-> total_memory, duty_cycle_pct |-> duty_cycle_pct]

Min(a, b) == IF a <= b THEN a ELSE b

\* The list comprehension over zip(usages, totals, duty_cycle_pct_per_core);
\* zip stops at the shortest of the three.
ZipUsage(usages, totals, duty) ==
  [p \in 1..Min(Len(usages), Min(Len(totals), Len(duty))) |->
     Usage(usages[p].int_attr, usages[p].gauge, totals[p].gauge, duty[p].gauge)]

\* A mutant of get_chip_usage: the length assertion is gone.
get_chip_usage_noassert(chip, totalsR, usagesR, dutyR) ==
  Return(ZipUsage(sorted_metric_response(usagesR),
                  sorted_metric_response(totalsR),
                  RepeatEach(sorted_metric_response(dutyR),
                             TpuChip[chip].devices_per_chip)))

\* get_chip_usage: three sorted responses, the duty cycle repeated
\* devices_per_chip times, the length assertion, the zip.
get_chip_usage(chip, totalsR, usagesR, dutyR) ==
  LET totals == sorted_metric_response(totalsR)
      usages == sorted_metric_response(usagesR)
      duty_cycle_pct == sorted_metric_response(dutyR)
      duty_cycle_pct_per_core ==
        RepeatEach(duty_cycle_pct, TpuChip[chip].devices_per_chip)
  IN IF ~(Len(totals) = Len(usages) /\ Len(usages) = Len(duty_cycle_pct_per_core))
     THEN Raise("AssertionError")
     ELSE Return(ZipUsage(usages, totals, duty_cycle_pct_per_core))

\* get_chip_usage_new: as get_chip_usage, but the duty cycle response is
\* taken as it is (duty_cycle_pct_per_core = duty_cycle_pct).
get_chip_usage_new(chip, totalsR, usagesR, dutyR) ==
  LET totals == sorted_metric_response(totalsR)
      usages == sorted_metric_response(usagesR)
      duty_cycle_pct == sorted_metric_response(dutyR)
      duty_cycle_pct_per_core == duty_cycle_pct
  IN IF ~(Len(totals) = Len(usages) /\ Len(usages) = Len(duty_cycle_pct_per_core))
     THEN Raise("AssertionError")
     ELSE Return(ZipUsage(usages, totals, duty_cycle_pct_per_core))

\* cli_helper.get_device_usage with a service that answers every request:
\* V7X goes to get_chip_usage_new, every other family to get_chip_usage; an
\* AssertionError is no grpc.RpcError and passes through.
get_device_usage(chip, totalsR, usagesR, dutyR) ==
  IF chip = "V7X"
  THEN get_chip_usage_new(chip, totalsR, usagesR, dutyR)
  ELSE get_chip_usage(chip, totalsR, usagesR, dutyR)

\* ---- the responses the usage functions are run on ----
MaxDeviceId == 3

\* The gauge a response carries for a device: distinct per metric and device.
TotalGauge(id) == 1000 + id
UsageGauge(id) == 100 + id
DutyGauge(id)  == 10 * (id + 1)

\* The device ids of one response: a run lo..hi of ids, listed upwards or
\* downwards; the empty response.
IdLists ==
  {<<>>} \cup
  UNION {{[p \in 1..(hi - lo + 1) |-> lo + p - 1],
          [p \in 1..(hi - lo + 1) |-> hi - p + 1]} :
           lo \in 0..MaxDeviceId, hi \in 0..MaxDeviceId}

TotalsResponses == {[p \in 1..Len(ids) |-> Metric(ids[p], TotalGauge(ids[p]))] : ids \in IdLists}
UsagesResponses == {[p \in 1..Len(ids) |-> Metric(ids[p], UsageGauge(ids[p]))] : ids \in IdLists}
DutyResponses   == {[p \in 1..Len(ids) |-> Metric(ids[p], DutyGauge(ids[p]))] : ids \in IdLists}

InitUsage ==
  /\ chip_type \in Families
  /\ totalsResp \in TotalsResponses
  /\ usagesResp \in UsagesResponses
  /\ dutyResp \in DutyResponses
  /\ usageFn = None
  /\ usageResult = NotCalled
  /\ IdleScan
  /\ IdleProbe
  /\ IdlePct
  /\ IdleOwners
  /\ IdleCatalog
  /\ IdlePath
  /\ IdleTopo
  /\ IdleCli
  /\ IdleLat
  /\ IdleUploader

\* metrics.get_chip_usage(chip_type) against the service.
GetChipUsage ==
  /\ usageFn = None
  /\ usageFn' = "get_chip_usage"
  /\ usageResult' = get_chip_usage(chip_type, totalsResp, usagesResp, dutyResp)
  /\ UNCHANGED <<chip_type, totalsResp, usagesResp, dutyResp, nonUsageVars>>

\* metrics.get_chip_usage_new(chip_type) against the service.
GetChipUsageNew ==
  /\ usageFn = None
  /\ usageFn' = "get_chip_usage_new"
  /\ usageResult' = get_chip_usage_new(chip_type, totalsResp, usagesResp, dutyResp)
  /\ UNCHANGED <<chip_type, totalsResp, usagesResp, dutyResp, nonUsageVars>>

\* cli_helper.get_device_usage(chip_type) against the service.
GetDeviceUsage ==
  /\ usageFn = None
  /\ usageFn' = "get_device_usage"
  /\ usageResult' = get_device_usage(chip_type, totalsResp, usagesResp, dutyResp)
  /\ UNCHANGED <<chip_type, totalsResp, usagesResp, dutyResp, nonUsageVars>>

NextUsage ==
  \/ GetChipUsage
  \/ GetChipUsageNew
  \/ GetDeviceUsage

SpecUsage == InitUsage /\ [][NextUsage]_vars

\* ---- the responses as the claims speak of them ----
\* The gauge of the c-th chip (c = 0, 1, ...) in device-id order of a
\* response whose ids are all different: the entry with exactly c smaller ids.
NthById(resp, c) ==
  CHOOSE m \in {resp[p] : p \in 1..Len(resp)} :
    Cardinality({q \in 1..Len(resp) : resp[q].int_attr < m.int_attr}) = c

DevicesPerChip(chip) == TpuChip[chip].devices_per_chip

\* C6: get_chip_usage on a family with devices_per_chip = k gives k records
\* per duty-cycle sample, and the record at sorted position k*c + j
\* (0 <= j < k) carries the duty cycle of chip c; with k = 1 each record
\* carries its own sample.
C6_DutyCycleReplicated ==
  (usageFn = "get_chip_usage" /\ usageResult.kind = "return") =>
    LET k == DevicesPerChip(chip_type)
        recs == usageResult.value
    IN /\ Len(recs) = k * Len(dutyResp)
       /\ \A c \in 0..(Len(dutyResp) - 1) : \A j \in 0..(k - 1) :
            recs[k * c + j + 1].duty_cycle_pct = NthById(dutyResp, c).gauge

C6_Witness ==
  /\ usageFn = "get_chip_usage"
  /\ usageResult.kind = "return"
  /\ DevicesPerChip(chip_type) = 2
  /\ Len(dutyResp) = 2
  /\ dutyResp[1].int_attr > dutyResp[2].int_attr
  /\ Len(usageResult.value) = 4
  /\ usageResult.value[2].duty_cycle_pct # usageResult.value[3].duty_cycle_pct

\* The number of duty-cycle entries after the granularity alignment of the
\* function that was called.
AlignedDutyLen ==
  IF usageFn = "get_chip_usage"
  THEN DevicesPerChip(chip_type) * Len(dutyResp)
  ELSE Len(dutyResp)

\* C7: when the total-memory, used-memory and aligned duty-cycle responses do
\* not all have the same length, get_chip_usage and get_chip_usage_new raise
\* and return no list.
C7_LengthMismatchRaises ==
  (/\ usageFn \in {"get_chip_usage", "get_chip_usage_new"}
   /\ ~(Len(totalsResp) = Len(usagesResp) /\ Len(usagesResp) = AlignedDutyLen))
    => usageResult = Raise("AssertionError")

C7_Witness ==
  /\ usageFn = "get_chip_usage"
  /\ Len(totalsResp) = 2 /\ Len(usagesResp) = 2 /\ Len(dutyResp) = 2
  /\ DevicesPerChip(chip_type) = 2
  /\ usageResult = Raise("AssertionError")

C7_WitnessNew ==
  /\ usageFn = "get_chip_usage_new"
  /\ Len(totalsResp) = 3 /\ Len(usagesResp) = 2 /\ Len(dutyResp) = 3
  /\ usageResult = Raise("AssertionError")

\* C8: for a family with devices_per_chip = k > 1 whose service reports
\* memory per core and duty cycle per chip, get_device_usage returns records
\* in which each chip's duty cycle is repeated over its k cores.
C8_DeviceUsageReplicated ==
  (/\ usageFn = "get_device_usage"
   /\ DevicesPerChip(chip_type) > 1
   /\ Len(totalsResp) = DevicesPerChip(chip_type) * Len(dutyResp)
   /\ Len(usagesResp) = DevicesPerChip(chip_type) * Len(dutyResp))
    => /\ usageResult.kind = "return"
       /\ LET k == DevicesPerChip(chip_type)
              recs == usageResult.value
          IN /\ Len(recs) = k * Len(dutyResp)
             /\ \A c \in 0..(Len(dutyResp) - 1) : \A j \in 0..(k - 1) :
                  recs[k * c + j + 1].duty_cycle_pct = NthById(dutyResp, c).gauge

\* C9: every Usage returned by get_chip_usage has its memory_usage and
\* total_memory from response entries with the record's own device id.
C9_ZippedByDeviceId ==
  (usageFn = "get_chip_usage" /\ usageResult.kind = "return") =>
    \A p \in 1..Len(usageResult.value) :
      LET r == usageResult.value[p] IN
        /\ \E q \in 1..Len(usagesResp) :
             usagesResp[q] = Metric(r.device_id, r.memory_usage)
        /\ \E q \in 1..Len(totalsResp) :
             totalsResp[q] = Metric(r.device_id, r.total_memory)

(***************************************************************************)
(* metrics.py: _get_percentile                                             *)
(***************************************************************************)
\* Exact rationals stand for the floats of the source: [num, den], den > 0.
Rat(n, d) == [num |-> n, den |-> d]
RatEq(a, b) == a.num * b.den = b.num * a.den
RatLe(a, b) == a.num * b.den <= b.num * a.den
RatMul(a, b) == Rat(a.num * b.num, a.den * b.den)
RatAdd(a, b) == Rat(a.num * b.den + b.num * a.den, a.den * b.den)

RECURSIVE RatPow(_, _)
RatPow(a, e) == IF e = 0 THEN Rat(1, 1) ELSE RatMul(a, RatPow(a, e - 1))

\* buckets[i] with Python's 0-based index.
BucketAt(buckets, i) == buckets[i + 1]

\* A mutant of LowerBound: the exponent is i instead of i - 1.
LowerBound_exp_i(scale, growth_factor, i) ==
  RatMul(scale, RatPow(growth_factor, i))

\* line 257: lower_bound = scale * (growth_factor ** (i - 1))
LowerBound(scale, growth_factor, i) ==
  RatMul(scale, RatPow(growth_factor, i - 1))

\* line 258: lower_bound * (1 + (delta / buckets[i]) * (growth_factor - 1));
\* used with bucket # 0 only.
Interpolate(lower_bound, delta, bucket, growth_factor) ==
  RatMul(lower_bound,
         RatAdd(Rat(1, 1),
                RatMul(Rat(delta, bucket),
                       RatAdd(growth_factor, Rat(-1, 1)))))

\* A mutant of PercentileLoop: the stopping test is total_count <
\* percentile_count instead of <=.
RECURSIVE PercentileLoop_strict(_, _, _, _, _, _, _)
PercentileLoop_strict(percentile_count, total_count, buckets, scale, growth_factor, i, walked) ==
  IF i <= 0
  THEN [kind |-> "return", value |-> Rat(1, 1), found |-> FALSE,
        crossing |-> 0, walked |-> walked]
  ELSE LET remaining == total_count - BucketAt(buckets, i) IN
    IF remaining < percentile_count
    THEN IF BucketAt(buckets, i) = 0
         THEN [kind |-> "raise", exc |-> "ZeroDivisionError", found |-> TRUE,
               crossing |-> i, walked |-> walked \cup {i}]
         ELSE [kind |-> "return",
               value |-> Interpolate(LowerBound(scale, growth_factor, i),
                                     percentile_count - remaining,
                                     BucketAt(buckets, i), growth_factor),
               found |-> TRUE, crossing |-> i, walked |-> walked \cup {i}]
    ELSE PercentileLoop_strict(percentile_count, remaining, buckets, scale,
                               growth_factor, i - 1, walked \cup {i})

\* The for loop of _get_percentile, for i in range(len(buckets) - 1, 0, -1),
\* from index i on with total_count as left by the indices above. found and
\* crossing tell whether and where the loop returned, walked is the set of
\* indices the loop body has run for. Dividing by a bucket count of 0 raises
\* ZeroDivisionError.
RECURSIVE PercentileLoop(_, _, _, _, _, _, _)
PercentileLoop(percentile_count, total_count, buckets, scale, growth_factor, i, walked) ==
  IF i <= 0
  THEN [kind |-> "return", value |-> Rat(1, 1), found |-> FALSE,
        crossing |-> 0, walked |-> walked]
  ELSE LET remaining == total_count - BucketAt(buckets, i) IN
    IF remaining <= percentile_count
    THEN IF BucketAt(buckets, i) = 0
         THEN [kind |-> "raise", exc |-> "ZeroDivisionError", found |-> TRUE,
               crossing |-> i, walked |-> walked \cup {i}]
         ELSE [kind |-> "return",
               value |-> Interpolate(LowerBound(scale, growth_factor, i),
                                     percentile_count - remaining,
                                     BucketAt(buckets, i), growth_factor),
               found |-> TRUE, crossing |-> i, walked |-> walked \cup {i}]
    ELSE PercentileLoop(percentile_count, remaining, buckets, scale,
                        growth_factor, i - 1, walked \cup {i})

\* A mutant of get_percentile: the fall-through returns scale instead of 1.
get_percentile_floor_scale(percentile_count, total_count, buckets, scale, growth_factor) ==
  LET r == PercentileLoop(percentile_count, total_count, buckets, scale,
                          growth_factor, Len(buckets) - 1, {})
  IN IF r.found THEN r ELSE [r EXCEPT !.value = scale]

\* _get_percentile: the loop from the top index, `return 1` after it.
get_percentile(percentile_count, total_count, buckets, scale, growth_factor) ==
  PercentileLoop(percentile_count, total_count, buckets, scale, growth_factor,
                 Len(buckets) - 1, {})

\* ---- the histograms the estimator is run on ----
MaxBuckets == 4
MaxBucketCount == 2
MaxTotalCount == 8

BucketLists == UNION {[1..n -> 0..MaxBucketCount] : n \in 0..MaxBuckets}

\* scales 1, 3 and 1/2
Scales == {Rat(1, 1), Rat(3, 1), Rat(1, 2)}

\* growth factors 2 and 3/2
GrowthFactors == {Rat(2, 1), Rat(3, 2)}

Distributions ==
  [bucket_counts : BucketLists, count : 0..MaxTotalCount,
   scale : Scales, growth_factor : GrowthFactors]

\* The histogram of the spec's worked example: scale 1.0, growth factor 2.0,
\* bucket counts [0, 0, 5, 5], total count 10.
ExampleDistribution ==
  [bucket_counts |-> <<0, 0, 5, 5>>, count |-> 10,
   scale |-> Rat(1, 1), growth_factor |-> Rat(2, 1)]

InitPct ==
  /\ hist \in Distributions \cup {ExampleDistribution}
  /\ target \in 0..hist.count
  /\ pctResult = NotCalled
  /\ IdleScan
  /\ IdleProbe
  /\ IdleUsage
  /\ IdleOwners
  /\ IdleCatalog
  /\ IdlePath
  /\ IdleTopo
  /\ IdleCli
  /\ IdleLat
  /\ IdleUploader

\* One call _get_percentile(target, count, bucket, scale, growth_factor), as
\* get_transfer_latency makes it (lines 301-304).
GetPercentile ==
  /\ pctResult = NotCalled
  /\ pctResult' = get_percentile(target, hist.count, hist.bucket_counts,
                                 hist.scale, hist.growth_factor)
  /\ UNCHANGED <<hist, target, nonPctVars>>

NextPct == GetPercentile

SpecPct == InitPct /\ [][NextPct]_vars

\* ---- the walk as the claims speak of it ----
RECURSIVE SumFrom(_, _)
\* buckets[i] + ... + buckets[len - 1], 0-based
SumFrom(buckets, i) ==
  IF i > Len(buckets) - 1 THEN 0
  ELSE BucketAt(buckets, i) + SumFrom(buckets, i + 1)

\* The indices, among lo..len-1, at which the count remaining after the
\* buckets from the top down to that index is at most the target.
CrossingsFrom(lo) ==
  {i \in lo..(Len(hist.bucket_counts) - 1) :
     hist.count - SumFrom(hist.bucket_counts, i) <= target}

Highest(S) == CHOOSE i \in S : \A j \in S : j <= i

\* scale * growth^(i-1) * (1 + (target - remaining)/bucket * (growth - 1))
\* over a common denominator, for growth = gn/gd:
\*   scale * gn^(i-1) * (bucket*gd + (target - remaining)*(gn - gd))
\*   --------------------------------------------------------------
\*                    gd^(i-1) * bucket * gd
RECURSIVE IntPow(_, _)
IntPow(b, e) == IF e = 0 THEN 1 ELSE b * IntPow(b, e - 1)

Estimate(i) ==
  LET bucket == BucketAt(hist.bucket_counts, i)
      remaining == hist.count - SumFrom(hist.bucket_counts, i)
      gn == hist.growth_factor.num
      gd == hist.growth_factor.den
  IN Rat(hist.scale.num * IntPow(gn, i - 1) * (bucket * gd + (target - remaining) * (gn - gd)),
         hist.scale.den * IntPow(gd, i - 1) * bucket * gd)

\* The result for the walk over the bucket indices lo..len-1, top down.
ResultOfWalkDownTo(lo) ==
  IF CrossingsFrom(lo) = {}
  THEN /\ pctResult.kind = "return"
       /\ ~pctResult.found
       /\ RatEq(pctResult.value, Rat(1, 1))
       /\ pctResult.walked = lo..(Len(hist.bucket_counts) - 1)
  ELSE LET i == Highest(CrossingsFrom(lo)) IN
       /\ pctResult.found
       /\ pctResult.crossing = i
       /\ pctResult.walked = i..(Len(hist.bucket_counts) - 1)
       /\ IF BucketAt(hist.bucket_counts, i) = 0
          THEN pctResult.kind = "raise" /\ pctResult.exc = "ZeroDivisionError"
          ELSE pctResult.kind = "return" /\ RatEq(pctResult.value, Estimate(i))

\* C10 as claimed: the walk goes from the highest index downward over every
\* bucket of the histogram (index 0 included), stops at the first bucket
\* where the remaining count is at most the target and returns the
\* interpolated estimate of that bucket.
C10_WalkOverEveryBucket ==
  pctResult # NotCalled => ResultOfWalkDownTo(0)

\* C10 amended: the walk goes from the highest index down to index 1; bucket
\* 0 never takes part. It stops at the first bucket i >= 1 where the
\* remaining count is at most the target and returns
\* scale * growth^(i-1) * (1 + (target - remaining)/bucket_count * (growth - 1)),
\* the division raising ZeroDivisionError when that bucket's count is 0; when
\* no bucket of index >= 1 crosses, it returns 1.
C10_WalkDownToIndexOne ==
  pctResult # NotCalled =>
    /\ ResultOfWalkDownTo(1)
    /\ 0 \notin pctResult.walked

C10_Witness ==
  /\ pctResult # NotCalled
  /\ pctResult.kind = "return"
  /\ pctResult.found
  /\ pctResult.crossing = 2
  /\ Len(hist.bucket_counts) = 4
  /\ hist.growth_factor = Rat(3, 2)
  /\ hist.count = SumFrom(hist.bucket_counts, 0)
  /\ target > hist.count - SumFrom(hist.bucket_counts, 2)
  /\ ~RatEq(pctResult.value, LowerBound(hist.scale, hist.growth_factor, 2))

\* ---- the worked example ----
\* int(count * 0.5) for the example's count of 10 (line 296).
ExampleP50Count == ExampleDistribution.count \div 2

ExampleCalled ==
  /\ pctResult # NotCalled
  /\ hist = ExampleDistribution
  /\ target = ExampleP50Count

\* The value range [scale * growth^(i-1), scale * growth^i) of the bucket at
\* 0-based index i.
InBucketRange(v, i) ==
  /\ RatLe(LowerBound(hist.scale, hist.growth_factor, i), v)
  /\ ~RatLe(LowerBound(hist.scale, hist.growth_factor, i + 1), v)

\* C11 as claimed: for scale 1, growth factor 2, bucket counts [0,0,5,5],
\* total 10 and target count 5 the estimate lies inside the value range of
\* the third bucket from the bottom (index 2, [2, 4)).
C11_P50InThirdBucket ==
  ExampleCalled =>
    (pctResult.kind = "return" /\ InBucketRange(pctResult.value, 2))

\* C11 amended: for that histogram and target the walk stops at the top
\* bucket (index 3, the fourth from the bottom) with nothing to interpolate,
\* and the estimate is exactly 4 = scale * growth^2: the lower bound of the
\* top bucket, which is the upper edge of the third bucket's range and not a
\* value inside it.
C11_P50IsTopBucketLowerBound ==
  ExampleCalled =>
    /\ pctResult.kind = "return"
    /\ pctResult.found
    /\ pctResult.crossing = 3
    /\ RatEq(pctResult.value, Rat(4, 1))
    /\ InBucketRange(pctResult.value, 3)
    /\ ~InBucketRange(pctResult.value, 2)

C11_Witness ==
  /\ ExampleCalled
  /\ pctResult.kind = "return"
  /\ pctResult.walked = {3}

\* C12: when no bucket met by the walk has remaining_count <= target_count
\* (an empty or single-bucket histogram included) the result is exactly 1,
\* whatever the scale and the growth factor.
C12_FallThroughReturnsOne ==
  (pctResult # NotCalled /\ CrossingsFrom(1) = {}) =>
    /\ pctResult.kind = "return"
    /\ pctResult.value = Rat(1, 1)
    /\ Len(hist.bucket_counts) <= 1 => pctResult.walked = {}

C12_Witness ==
  /\ pctResult # NotCalled
  /\ Len(hist.bucket_counts) = 3
  /\ hist.scale = Rat(3, 1)
  /\ hist.growth_factor = Rat(3, 2)
  /\ ~pctResult.found
  /\ pctResult.walked = {1, 2}
  /\ pctResult.value = Rat(1, 1)


\* ==========================================================================
\* device.py: get_chip_owners (lines 196-214)
\* ==========================================================================
\* Paths are sequences of one-character strings, so that the two regular
\* expressions and int() are computed on the text and not assumed.

\* \d+ : a non-empty run of decimal digits.
IsDigits(s) == Len(s) >= 1 /\ \A k \in 1..Len(s) : s[k] \in Digits

\* \d* : the pattern with the trailing number made optional.
IsDigits_optional(s) == \A k \in 1..Len(s) : s[k] \in Digits

StartsWith(s, prefix) ==
  Len(s) >= Len(prefix) /\ SubSeq(s, 1, Len(prefix)) = prefix

Rest(s, prefix) == SubSeq(s, Len(prefix) + 1, Len(s))

\* The device pattern with the number optional.
MatchDevice_optional_number(file) ==
  \E drv \in {P_accel, P_vfio} :
    /\ StartsWith(file, P_dev \o drv)
    /\ IsDigits_optional(Rest(file, P_dev \o drv))

\* re.fullmatch(r"/dev/(?:accel|vfio/)\d+", file), line 207.
MatchDevice(file) ==
  \E drv \in {P_accel, P_vfio} :
    /\ StartsWith(file, P_dev \o drv)
    /\ IsDigits(Rest(file, P_dev \o drv))

\* re.fullmatch(r"/proc/(\d+)/fd/\d+", link), line 208: the positions where
\* group 1 can end.
ProcFdSplits(link) ==
  {k \in (Len(P_proc) + 1)..Len(link) :
     /\ StartsWith(link, P_proc)
     /\ IsDigits(SubSeq(link, Len(P_proc) + 1, k))
     /\ StartsWith(SubSeq(link, k + 1, Len(link)), P_fd)
     /\ IsDigits(SubSeq(link, k + Len(P_fd) + 1, Len(link)))}

MatchProcFd(link) ==
  IF ProcFdSplits(link) = {}
  THEN [matched |-> FALSE, group1 |-> <<>>]
  ELSE [matched |-> TRUE,
        group1 |-> SubSeq(link, Len(P_proc) + 1,
                          CHOOSE k \in ProcFdSplits(link) : TRUE)]

DigitValue(c) ==
  CASE c = "0" -> 0 [] c = "1" -> 1 [] c = "2" -> 2 [] c = "3" -> 3
    [] c = "4" -> 4 [] c = "5" -> 5 [] c = "6" -> 6 [] c = "7" -> 7
    [] c = "8" -> 8 [] c = "9" -> 9

\* int(match.group(1)), line 212.
RECURSIVE ParseInt(_)
ParseInt(s) ==
  IF s = <<>> THEN 0
  ELSE 10 * ParseInt(SubSeq(s, 1, Len(s) - 1)) + DigitValue(s[Len(s)])

\* os.readlink on a link that is gone raises FileNotFoundError.
Vanished == <<"<", "g", "o", "n", "e", ">">>

\* dict item assignment device_owners[file] = pid.
DictSet(d, key, value) ==
  [x \in DOMAIN d \cup {key} |-> IF x = key THEN value ELSE d[x]]


\* device_owners = {}, line 198.
EmptyDict == [x \in {} |-> 0]

\* The iteration that skips an unparsable link path instead of raising.
LoopBody_skip_unknown(read, device_owners) ==
  IF read.file = Vanished
  THEN [kind |-> "continue", owners |-> device_owners]
  ELSE IF MatchDevice(read.file) /\ MatchProcFd(read.link).matched
       THEN [kind |-> "continue",
             owners |-> DictSet(device_owners, read.file,
                                ParseInt(MatchProcFd(read.link).group1))]
       ELSE [kind |-> "continue", owners |-> device_owners]

\* The iteration without the try/except around os.readlink.
LoopBody_no_except(read, device_owners) ==
  IF read.file = Vanished
  THEN Raise("FileNotFoundError")
  ELSE IF MatchDevice(read.file)
       THEN IF ~MatchProcFd(read.link).matched
            THEN Raise("RuntimeError")
            ELSE [kind |-> "continue",
                  owners |-> DictSet(device_owners, read.file,
                                     ParseInt(MatchProcFd(read.link).group1))]
       ELSE [kind |-> "continue", owners |-> device_owners]

\* One iteration of the loop, lines 200-212, on what readlink gave for the
\* link: the dict after it, or the exception that leaves the function.
LoopBody(read, device_owners) ==
  IF read.file = Vanished
  THEN [kind |-> "continue", owners |-> device_owners]
  ELSE IF MatchDevice(read.file)
       THEN IF ~MatchProcFd(read.link).matched
            THEN Raise("RuntimeError")
            ELSE [kind |-> "continue",
                  owners |-> DictSet(device_owners, read.file,
                                     ParseInt(MatchProcFd(read.link).group1))]
       ELSE [kind |-> "continue", owners |-> device_owners]

RECURSIVE OwnersLoop(_, _, _)
OwnersLoop(reads, i, device_owners) ==
  IF i > Len(reads) THEN Return(device_owners)
  ELSE LET step == LoopBody(reads[i], device_owners)
       IN IF step.kind = "raise" THEN step
          ELSE OwnersLoop(reads, i + 1, step.owners)

\* get_chip_owners() on the links glob returned, each with what os.readlink
\* gives for it at the time it is read.
get_chip_owners(reads) == OwnersLoop(reads, 1, EmptyDict)


MaxLinks == 2

PidSegments == {<<"1", "2">>, <<"3", "4", "5">>, <<"s", "e", "l", "f">>}

\* What glob.glob("/proc/*/fd/*") can list: numeric pids, the "self" alias,
\* and the unparsable fd name of device_test.py line 197.
LinkPaths ==
  {P_proc \o pid \o P_fd \o fd : pid \in PidSegments, fd \in {<<"4">>}}
  \cup {P_proc \o <<"1", "2">> \o P_fd \o <<"1", "0">>,
        P_proc \o <<"2", "2", "2">> \o P_fd \o <<"a", "b", "c">>}

LinkTargets ==
  {P_dev \o P_accel \o <<"0">>, P_dev \o P_vfio \o <<"0">>,
   P_dev \o P_vfio \o <<"1", "2">>, P_dev \o P_vfio, P_dev \o P_null}

FdLink(link, file) == [link |-> link, file |-> file]

\* The fd tables: at most MaxLinks links, no path twice.
ProcTrees ==
  {t \in SUBSET {FdLink(l, f) : l \in LinkPaths, f \in LinkTargets} :
     /\ Cardinality(t) <= MaxLinks
     /\ \A x, y \in t : x.link = y.link => x = y}

LinksOf(t) == {x.link : x \in t}

\* The orders in which glob can list the links of a table.
Listings(t) ==
  {q \in [1..Cardinality(t) -> LinksOf(t)] :
     \A a, b \in 1..Cardinality(t) : q[a] = q[b] => a = b}

\* os.readlink(link) against the table as it is now.
readlink(t, link) ==
  IF link \in LinksOf(t) THEN (CHOOSE x \in t : x.link = link).file
  ELSE Vanished

InitOwners ==
  /\ procfs \in ProcTrees
  /\ globbed = <<>>
  /\ resolved = <<>>
  /\ ownersPc = "idle"
  /\ ownersCalls = 0
  /\ prevOwners = NotCalled
  /\ ownersResult = NotCalled
  /\ IdleScan
  /\ IdleProbe
  /\ IdleUsage
  /\ IdlePct
  /\ IdleCatalog
  /\ IdlePath
  /\ IdleTopo
  /\ IdleCli
  /\ IdleLat
  /\ IdleUploader

MaxOwnersCalls == 2

\* line 200: glob.glob lists the links that exist now.
Glob ==
  /\ ownersPc = "idle"
  /\ ownersCalls < MaxOwnersCalls
  /\ globbed' \in Listings(procfs)
  /\ ownersPc' = "scanning"
  /\ ownersCalls' = ownersCalls + 1
  /\ UNCHANGED <<procfs, resolved, prevOwners, ownersResult, nonOwnersVars>>

\* A process closes a descriptor or exits: its link disappears. This can
\* happen at any moment, in particular between the glob and the readlink.
CloseFd ==
  /\ \E x \in procfs : procfs' = procfs \ {x}
  /\ UNCHANGED <<globbed, resolved, ownersPc, ownersCalls, prevOwners,
                 ownersResult, nonOwnersVars>>

\* lines 198-214: the loop over the listed links and the return.
ResolveLinks ==
  /\ ownersPc = "scanning"
  /\ resolved' = [j \in 1..Len(globbed) |->
                    FdLink(globbed[j], readlink(procfs, globbed[j]))]
  /\ ownersResult' = get_chip_owners(resolved')
  /\ prevOwners' = ownersResult
  /\ ownersPc' = "idle"
  /\ UNCHANGED <<procfs, globbed, ownersCalls, nonOwnersVars>>

NextOwners == Glob \/ CloseFd \/ ResolveLinks

SpecOwners == InitOwners /\ [][NextOwners]_vars


\* ---- claims on get_chip_owners ----

OwnersCalled == ownersResult # NotCalled

Dev_accel0 == P_dev \o P_accel \o <<"0">>
Dev_vfio0 == P_dev \o P_vfio \o <<"0">>
Dev_vfio12 == P_dev \o P_vfio \o <<"1", "2">>
DevicePaths == {Dev_accel0, Dev_vfio0, Dev_vfio12}

Link_12_4 == P_proc \o <<"1", "2">> \o P_fd \o <<"4">>
Link_12_10 == P_proc \o <<"1", "2">> \o P_fd \o <<"1", "0">>
Link_345_4 == P_proc \o <<"3", "4", "5">> \o P_fd \o <<"4">>
Link_self_4 == P_proc \o <<"s", "e", "l", "f">> \o P_fd \o <<"4">>
NumericLinks == {Link_12_4, Link_12_10, Link_345_4}

\* The pid written in the path of a numeric link.
PidIn(link) == IF link = Link_345_4 THEN 345 ELSE 12

\* The reads of the last call that resolved, in the order they were made.
Resolvable(read) == read.file # Vanished
Survivors == SelectSeq(resolved, Resolvable)
Indexes(q) == 1..Len(q)

\* Some read of the last call resolved to a device path from a link whose
\* own path is not /proc/<digits>/fd/<digits>.
UnknownLinkRead ==
  \E j \in Indexes(resolved) :
    resolved[j].file \in DevicePaths /\ resolved[j].link \notin NumericLinks

\* C13: whenever a link of the scan resolves to /dev/accel<N> or
\* /dev/vfio/<N> and its own path is not /proc/<pid>/fd/<fd> with numeric pid
\* and fd, get_chip_owners raises RuntimeError and returns no map.
C13_UnknownLinkRaises ==
  (OwnersCalled /\ UnknownLinkRead) => ownersResult = Raise("RuntimeError")

\* The /proc/self alias resolves to a device after a numeric link already put
\* an entry in the map: the call raises and the partial map is not returned.
C13_Witness ==
  /\ OwnersCalled
  /\ Len(resolved) = 2
  /\ resolved[1] = FdLink(Link_12_4, Dev_accel0)
  /\ resolved[2] = FdLink(Link_self_4, Dev_vfio0)
  /\ ownersResult = Raise("RuntimeError")

\* The entries the reads q put in the map: each device path among the
\* targets, with the pid of the last link read that resolved to it.
LastReadOf(q, file) ==
  CHOOSE j \in Indexes(q) :
    /\ q[j].file = file
    /\ \A k \in Indexes(q) : q[k].file = file => k <= j

OwnershipEntries(q) ==
  [file \in {q[j].file : j \in Indexes(q)} \cap DevicePaths |->
     PidIn(q[LastReadOf(q, file)].link)]

WellFormedReads(q) == \A j \in Indexes(q) : q[j].link \in NumericLinks

\* C14: when every link has the form /proc/<pid>/fd/<fd>, the call returns
\* a map whose keys are exactly the targets matching /dev/accel<N> or
\* /dev/vfio/<N>, each with the pid of the (last) link resolving to it; other
\* targets add nothing, and nothing of an earlier call's map is carried over.
C14_OwnersMap ==
  (OwnersCalled /\ WellFormedReads(resolved)) =>
    /\ ownersResult.kind = "return"
    /\ DOMAIN ownersResult.value =
         {resolved[j].file : j \in Indexes(resolved)} \cap DevicePaths
    /\ \A file \in DOMAIN ownersResult.value :
         /\ ownersResult.value[file] =
              PidIn(resolved[LastReadOf(resolved, file)].link)
         /\ \E j \in Indexes(resolved) :
              /\ resolved[j].file = file
              /\ ownersResult.value[file] = PidIn(resolved[j].link)

\* A second call, after the owner of /dev/accel0 closed it: the first map had
\* the entry, the second has only the other one.
C14_Witness ==
  /\ ownersCalls = 2
  /\ ownersPc = "idle"
  /\ prevOwners.kind = "return"
  /\ DOMAIN prevOwners.value = {Dev_accel0, Dev_vfio12}
  /\ WellFormedReads(resolved)
  /\ ownersResult.kind = "return"
  /\ DOMAIN ownersResult.value = {Dev_vfio12}
  /\ ownersResult.value[Dev_vfio12] = 345

\* Two processes hold the same device: the entry has the pid of the link
\* listed last.
C14_WitnessLastWins ==
  /\ OwnersCalled
  /\ Len(resolved) = 2
  /\ resolved[1] = FdLink(Link_345_4, Dev_vfio0)
  /\ resolved[2] = FdLink(Link_12_10, Dev_vfio0)
  /\ ownersResult = Return(OwnershipEntries(resolved))
  /\ ownersResult.value[Dev_vfio0] = 12

SomeVanished == \E j \in Indexes(resolved) : resolved[j].file = Vanished

\* C15 as stated: when links vanish between the listing and the readlink,
\* the call never raises and returns the entries of the surviving links.
C15_VanishedNeverRaises ==
  (OwnersCalled /\ SomeVanished) =>
    /\ ownersResult.kind = "return"
    /\ ownersResult.value = OwnershipEntries(Survivors)

\* C15: vanished links are skipped: the call ends exactly as it does on the
\* surviving links alone. It returns their entries when their paths are well
\* formed, and raises only RuntimeError, for a surviving device link whose
\* path is not /proc/<pid>/fd/<fd>.
C15_VanishedSkipped ==
  (OwnersCalled /\ SomeVanished) =>
    /\ ownersResult = get_chip_owners(Survivors)
    /\ WellFormedReads(Survivors) =>
         ownersResult = Return(OwnershipEntries(Survivors))
    /\ ownersResult.kind = "raise" =>
         /\ ownersResult.exc = "RuntimeError"
         /\ \E j \in Indexes(Survivors) :
              /\ Survivors[j].file \in DevicePaths
              /\ Survivors[j].link \notin NumericLinks

\* The first listed link vanished (even one with an unparsable path), the
\* second still resolves to a device: one entry is returned.
C15_Witness ==
  /\ OwnersCalled
  /\ Len(resolved) = 2
  /\ resolved[1] = FdLink(Link_self_4, Vanished)
  /\ resolved[2] = FdLink(Link_12_4, Dev_accel0)
  /\ ownersResult.kind = "return"
  /\ DOMAIN ownersResult.value = {Dev_accel0}
  /\ ownersResult.value[Dev_accel0] = 12


\* ==========================================================================
\* device.py: TpuChip.from_pci_device_id and chip_path on the catalogue
\* ==========================================================================
MaxChipIndex == 12

\* The ids of the catalogue, ids next to them and a subsystem id used as a
\* device id (and the reverse).
CatalogDeviceIds == DeviceIds \cup {"0x0000", "0x0028", "0x004e"}
CatalogSubsystemIds == SubsystemIds \cup {"0x004d", "0x0027", "0x005e"}

InitCatalog ==
  /\ catDeviceId \in CatalogDeviceIds
  /\ catSubsystemId \in CatalogSubsystemIds
  /\ catFamily = NotCalled
  /\ IdlePath
  /\ IdleScan
  /\ IdleProbe
  /\ IdleUsage
  /\ IdlePct
  /\ IdleOwners
  /\ IdleTopo
  /\ IdleCli
  /\ IdleLat
  /\ IdleUploader

\* TpuChip.from_pci_device_id(device_id, subsystem_id), lines 48-68.
FromPciDeviceId ==
  /\ catFamily = NotCalled
  /\ catFamily' = Return(from_pci_device_id(catDeviceId, catSubsystemId))
  /\ UNCHANGED <<catDeviceId, catSubsystemId, pathVars, nonCatVars>>

\* chip_path(chip_type, index) for the family the catalogue gave.
ChipPath ==
  /\ catFamily.kind = "return"
  /\ catFamily.value # None
  /\ pathResult = NotCalled
  /\ \E index \in 0..MaxChipIndex :
       /\ pathFamily' = catFamily.value
       /\ pathIndex' = index
       /\ pathResult' = Return(chip_path(catFamily.value, index))
  /\ UNCHANGED <<catVars, nonCatVars>>

NextCatalog == FromPciDeviceId \/ ChipPath

SpecCatalog == InitCatalog /\ [][NextCatalog]_vars

\* ---- claims on the catalogue ----

CatalogCalled == catFamily # NotCalled

\* The device ids that resolve to different families under different
\* subsystem ids.
SharedDeviceIds ==
  {d \in CatalogDeviceIds :
     \E s1, s2 \in CatalogSubsystemIds :
       /\ from_pci_device_id(d, s1) # None
       /\ from_pci_device_id(d, s2) # None
       /\ from_pci_device_id(d, s1) # from_pci_device_id(d, s2)}

\* The device ids that resolve to one family whatever the subsystem id.
OneToOne ==
  [d \in {"0x005e", "0x0063", "0x0062", "0x006f", "0x0076"} |->
     CASE d = "0x005e" -> "V4" [] d = "0x0063" -> "V5E" [] d = "0x0062" -> "V5P"
       [] d = "0x006f" -> "V6E" [] d = "0x0076" -> "V7X"]

\* What the claim says of every id pair, apart from how many ids are shared.
ResolvedAsCatalogued ==
  /\ catFamily.kind = "return"
  /\ (catDeviceId = "0x0027" /\ catSubsystemId = "0x004e") =>
       catFamily.value = "V2"
  /\ (catDeviceId = "0x0027" /\ catSubsystemId = "0x004f") =>
       catFamily.value = "V3"
  /\ (catDeviceId = "0x0027" /\ catSubsystemId \notin {"0x004e", "0x004f"}) =>
       catFamily.value = None
  /\ catDeviceId \in DOMAIN OneToOne =>
       catFamily.value = OneToOne[catDeviceId]
  /\ catDeviceId \notin DOMAIN OneToOne \cup {"0x0027"} =>
       catFamily.value = None

\* C17 as stated: two device ids are each shared by two families.
C17_TwoSharedDeviceIds ==
  CatalogCalled =>
    (Cardinality(SharedDeviceIds) = 2 /\ ResolvedAsCatalogued)

\* C17: from_pci_device_id is a function of (device_id, subsystem_id) in
\* which one device id, 0x0027, is shared by two families (V2, V3) and
\* resolved by the subsystem id; every other recognized device id gives its
\* single family for every subsystem id; every other pair, 0x0027 with an
\* unrecognized subsystem id included, gives None without raising.
C17_OneSharedDeviceId ==
  CatalogCalled =>
    (SharedDeviceIds = {"0x0027"} /\ ResolvedAsCatalogued)

\* The shared device id with a subsystem id of neither family.
C17_Witness ==
  /\ catDeviceId = "0x0027"
  /\ catSubsystemId = "0x005e"
  /\ catFamily = Return(None)

\* C18: chip_path(family, i) is /dev/vfio/<i> for V5E, V5P, V6E and V7X and
\* /dev/accel<i> for V2, V3 and V4, <i> being the decimal numeral of i; the
\* result is determined by (family, i).
C18_ChipPath ==
  pathResult # NotCalled =>
    LET prefix == IF pathFamily \in {"V5E", "V5P", "V6E", "V7X"}
                  THEN P_dev \o P_vfio
                  ELSE P_dev \o P_accel
        numeral == Rest(pathResult.value, prefix)
    IN /\ pathFamily \in {"V2", "V3", "V4", "V5E", "V5P", "V6E", "V7X"}
       /\ pathResult.kind = "return"
       /\ StartsWith(pathResult.value, prefix)
       /\ IsDigits(numeral)
       /\ ParseInt(numeral) = pathIndex
       /\ (Len(numeral) > 1 => numeral[1] # "0")

C18_Witness ==
  /\ pathFamily = "V7X"
  /\ pathIndex = 12
  /\ pathResult = Return(<<"/", "d", "e", "v", "/", "v", "f", "i", "o", "/",
                           "1", "2">>)

C18_WitnessAccel ==
  /\ pathFamily = "V4"
  /\ pathIndex = 10
  /\ pathResult = Return(<<"/", "d", "e", "v", "/", "a", "c", "c", "e", "l",
                           "1", "0">>)


\* ==========================================================================
\* device.py: get_actual_chips (lines 96-163)
\* ==========================================================================

\* The characters of the paths and addresses, in code point order.
AsciiOrder ==
  <<".", "/", "0", "1", "2", "3", "4", "5", "6", "7", "8", "9", ":",
    "d", "e", "f", "i", "o", "v">>

CodePoint(c) == CHOOSE k \in 1..Len(AsciiOrder) : AsciiOrder[k] = c

\* a <= b for Python str: code point by code point, a prefix comes first.
RECURSIVE StrLe(_, _)
StrLe(a, b) ==
  IF a = <<>> THEN TRUE
  ELSE IF b = <<>> THEN FALSE
  ELSE IF Head(a) = Head(b) THEN StrLe(Tail(a), Tail(b))
  ELSE CodePoint(Head(a)) < CodePoint(Head(b))

DotsOf(pci_addr) == {k \in 1..Len(pci_addr) : pci_addr[k] = "."}

\* pci_addr.split(".")[0], line 127.
FirstSegment(pci_addr) ==
  IF DotsOf(pci_addr) = {} THEN pci_addr
  ELSE SubSeq(pci_addr, 1,
              (CHOOSE k \in DotsOf(pci_addr) :
                 \A m \in DotsOf(pci_addr) : k <= m) - 1)

\* pci_addr.split(".")[-1], line 128.
LastSegment(pci_addr) ==
  IF DotsOf(pci_addr) = {} THEN pci_addr
  ELSE SubSeq(pci_addr,
              (CHOOSE k \in DotsOf(pci_addr) :
                 \A m \in DotsOf(pci_addr) : m <= k) + 1,
              Len(pci_addr))

\* The core index taken as 0 for every function.
core_index_of_zero(pci_addr) == 0

\* core_index = int(pci_addr.split(".")[-1]), line 128.
core_index_of(pci_addr) == ParseInt(LastSegment(pci_addr))

CoreInfo(core_index, device_id, vfio_path, full_addr) ==
  [core_index |-> core_index, device_id |-> device_id,
   vfio_path |-> vfio_path, full_addr |-> full_addr]

ChipInfo(base_addr, cores) == [base_addr |-> base_addr, cores |-> cores]

\* A dict keeps its keys in insertion order; assigning to a key it has keeps
\* the key's place. Dicts are sequences of [key, value] here.
DictKeys(d) == {d[j].key : j \in 1..Len(d)}

DictGet(d, k, default) ==
  IF k \in DictKeys(d)
  THEN d[CHOOSE j \in 1..Len(d) : d[j].key = k].value
  ELSE default

DictPut(d, k, v) ==
  IF k \in DictKeys(d)
  THEN [j \in 1..Len(d) |->
          IF d[j].key = k THEN [key |-> k, value |-> v] ELSE d[j]]
  ELSE Append(d, [key |-> k, value |-> v])

\* The directory has no iommu_group link (os.path.islink is False).
NoLink == <<>>

\* The loop of lines 101-147 from entry i on. An entry is a directory of
\* /sys/bus/pci/devices: its name, what its vendor and device files hold
\* (Missing: no such file) and the group its iommu_group link names.
RECURSIVE TopoLoop(_, _, _)
TopoLoop(entries, i, chips_by_base_addr) ==
  IF i > Len(entries) THEN chips_by_base_addr
  ELSE LET e == entries[i] IN
    IF e.vendor = Missing \/ e.vendor # GOOGLE_PCI_VENDOR_ID
    THEN TopoLoop(entries, i + 1, chips_by_base_addr)
    ELSE IF e.iommu_group = NoLink
    THEN TopoLoop(entries, i + 1, chips_by_base_addr)
    ELSE IF e.device = Missing
    THEN TopoLoop(entries, i + 1, chips_by_base_addr)
    ELSE
      LET pci_base == FirstSegment(e.pci_addr)
          core_index == core_index_of(e.pci_addr)
          chip_info == DictGet(chips_by_base_addr, pci_base,
                               ChipInfo(pci_base, <<>>))
          core_info == CoreInfo(core_index, e.device,
                                P_dev \o P_vfio \o e.iommu_group, e.pci_addr)
          updated == ChipInfo(chip_info.base_addr,
                              DictPut(chip_info.cores, core_index, core_info))
      IN TopoLoop(entries, i + 1,
                  DictPut(chips_by_base_addr, pci_base, updated))

\* chip_sort_key, lines 150-157.
chip_sort_key(chip) ==
  IF 0 \in DictKeys(chip.cores) THEN DictGet(chip.cores, 0, None).vfio_path
  ELSE IF chip.cores = <<>> THEN <<>>
  ELSE chip.cores[1].value.vfio_path

\* sorted(..., key=chip_sort_key): stable, so a chip goes after every chip
\* already placed whose key is not greater.
InsertByKey(placed, chip) ==
  LET after == {j \in 1..Len(placed) :
                  StrLe(chip_sort_key(placed[j]), chip_sort_key(chip))}
      pos == IF after = {} THEN 0
             ELSE CHOOSE j \in after : \A m \in after : m <= j
  IN SubSeq(placed, 1, pos) \o <<chip>> \o SubSeq(placed, pos + 1, Len(placed))

RECURSIVE SortedByKey(_, _, _)
SortedByKey(values, i, placed) ==
  IF i > Len(values) THEN placed
  ELSE SortedByKey(values, i + 1, InsertByKey(placed, values[i]))

get_actual_chips(entries) ==
  LET chips_by_base_addr == TopoLoop(entries, 1, <<>>)
      values == [j \in 1..Len(chips_by_base_addr) |->
                   chips_by_base_addr[j].value]
  IN Return(SortedByKey(values, 1, <<>>))


MaxTopoLen == 3

\* Directory names of /sys/bus/pci/devices: domain:bus:device.function.
PciAddr(dev, fn) ==
  <<"0", "0", "0", "0", ":", "0", "0", ":", "0", dev, ".", fn>>

PciAddrs ==
  {PciAddr(dev, fn) : dev \in {"4", "5"}, fn \in {"0", "1"}}
  \cup {PciAddr("4", "2")}

Files(v, d, s, g) ==
  [vendor |-> v, device |-> d, subsystem |-> s, iommu_group |-> g]

\* What a directory can hold: an accelerator function in IOMMU group 2, 10
\* or 7, an accelerator-vendor function that is no chip, a function with no
\* iommu_group link, one of another vendor, and ones with a file missing.
TopoFiles ==
  {Files(GOOGLE_PCI_VENDOR_ID, "0x0076", "0x0000", g) :
     g \in {<<"2">>, <<"1", "0">>, <<"7">>}}
  \cup {Files(GOOGLE_PCI_VENDOR_ID, "0x0042", "0x0000", <<"3">>),
        Files(GOOGLE_PCI_VENDOR_ID, "0x0076", "0x0000", NoLink),
        Files("0x1234", "0x0076", "0x0000", <<"2">>),
        Files(Missing, "0x0076", "0x0000", <<"2">>),
        Files(GOOGLE_PCI_VENDOR_ID, Missing, "0x0000", <<"2">>)}

TopoEntry(addr, f) ==
  [pci_addr |-> addr, vendor |-> f.vendor, device |-> f.device,
   subsystem |-> f.subsystem, iommu_group |-> f.iommu_group]

\* The listings glob can give n directories in: no name twice.
TopoAddrs(n) ==
  {a \in [1..n -> PciAddrs] : \A x, y \in 1..n : a[x] = a[y] => x = y}

InitTopo ==
  /\ \E n \in 0..MaxTopoLen :
       \E addrs \in TopoAddrs(n), files \in [1..n -> TopoFiles] :
         topo = [j \in 1..n |-> TopoEntry(addrs[j], files[j])]
  /\ topoResult = NotCalled
  /\ IdleScan
  /\ IdleProbe
  /\ IdleUsage
  /\ IdlePct
  /\ IdleOwners
  /\ IdleCatalog
  /\ IdlePath
  /\ IdleCli
  /\ IdleLat
  /\ IdleUploader

\* One call of get_actual_chips() on the current tree.
GetActualChips ==
  /\ topoResult = NotCalled
  /\ topoResult' = get_actual_chips(topo)
  /\ UNCHANGED <<topo, nonTopoVars>>

NextTopo == GetActualChips

SpecTopo == InitTopo /\ [][NextTopo]_vars

\* ---- claims on get_actual_chips ----

TopoCalled == topoResult # NotCalled

\* The functions the scan takes: accelerator vendor, an iommu_group link and
\* a readable device file.
Matching(e) ==
  /\ e.vendor = GOOGLE_PCI_VENDOR_ID
  /\ e.iommu_group # NoLink
  /\ e.device # Missing

MatchingAt(entries) == {j \in 1..Len(entries) : Matching(entries[j])}

RECURSIVE SumOfCores(_, _)
SumOfCores(chips, i) ==
  IF i > Len(chips) THEN 0
  ELSE Len(chips[i].cores) + SumOfCores(chips, i + 1)

\* The (chip position, core position) pairs of a returned list.
CoresOf(chips) ==
  {<<c, k>> : c \in 1..Len(chips), k \in 1..MaxTopoLen + 1} \cap
  {ck \in (1..Len(chips)) \X (1..MaxTopoLen + 1) :
     ck[2] <= Len(chips[ck[1]].cores)}

\* C20: the numbers of cores of the returned chips add up to the number of
\* matching functions on the tree, and each matching function is exactly one
\* core: in the chip of its domain:bus:device, under its function number,
\* with its own full address; no two functions share a core.
C20_CoresAreTheMatchingFunctions ==
  TopoCalled =>
    /\ topoResult.kind = "return"
    /\ SumOfCores(topoResult.value, 1) = Cardinality(MatchingAt(topo))
    /\ \A j \in MatchingAt(topo) :
         \E ck \in CoresOf(topoResult.value) :
           LET chip == topoResult.value[ck[1]]
               core == chip.cores[ck[2]]
           IN /\ core.value.full_addr = topo[j].pci_addr
              /\ core.value.device_id = topo[j].device
              /\ chip.base_addr = SubSeq(topo[j].pci_addr, 1, 10)
              /\ core.key = DigitValue(topo[j].pci_addr[12])
              /\ core.value.core_index = core.key
    /\ \A ck \in CoresOf(topoResult.value) :
         \E j \in MatchingAt(topo) :
           topoResult.value[ck[1]].cores[ck[2]].value.full_addr
             = topo[j].pci_addr

\* Two functions of one device and one of another, all matching: two chips,
\* three cores.
C20_Witness ==
  /\ TopoCalled
  /\ Len(topo) = 3
  /\ MatchingAt(topo) = {1, 2, 3}
  /\ topoResult.kind = "return"
  /\ Len(topoResult.value) = 2
  /\ SumOfCores(topoResult.value, 1) = 3


\* The orders glob can list the directories of the tree in.
Enumerations(entries) ==
  {[j \in 1..Len(entries) |-> entries[q[j]]] :
     q \in {f \in [1..Len(entries) -> 1..Len(entries)] :
              \A x, y \in 1..Len(entries) : f[x] = f[y] => x = y}}

\* The control path of the chip's core with the lowest index.
LowestCorePath(chip) ==
  LET lowest == CHOOSE k \in DictKeys(chip.cores) :
                  \A m \in DictKeys(chip.cores) : k <= m
  IN DictGet(chip.cores, lowest, None).vfio_path

SortedByLowestCore(chips) ==
  \A j \in 1..(Len(chips) - 1) :
    StrLe(LowestCorePath(chips[j]), LowestCorePath(chips[j + 1]))

\* list == list for lists of ChipInfo: the same chips in the same places,
\* a chip's cores compared as a dict (the order of its keys does not count).
SameChips(a, b) ==
  /\ Len(a) = Len(b)
  /\ \A j \in 1..Len(a) :
       /\ a[j].base_addr = b[j].base_addr
       /\ {a[j].cores[k] : k \in 1..Len(a[j].cores)}
            = {b[j].cores[k] : k \in 1..Len(b[j].cores)}

SameForEveryEnumeration ==
  \A listing \in Enumerations(topo) :
    SameChips(get_actual_chips(listing).value, topoResult.value)

\* C21: the returned list is in the order of the control paths of the
\* chips' lowest-indexed cores, and every enumeration order of the same tree
\* gives the same list.
C21_OrderIndependentOfEnumeration ==
  TopoCalled =>
    (SortedByLowestCore(topoResult.value) /\ SameForEveryEnumeration)

\* The two halves of C21: each fails on its own.
C21_SortedByLowestCore == TopoCalled => SortedByLowestCore(topoResult.value)

C21_SameForEveryEnumeration == TopoCalled => SameForEveryEnumeration

\* With function 0 on every chip and no two chips on one control path the
\* order is by that path and does not depend on the enumeration.
KeysDistinctWithCoreZero(chips) ==
  /\ \A j \in 1..Len(chips) : 0 \in DictKeys(chips[j].cores)
  /\ \A j, k \in 1..Len(chips) :
       chip_sort_key(chips[j]) = chip_sort_key(chips[k]) => j = k

C21_StableWhenKeysDistinct ==
  (TopoCalled /\ KeysDistinctWithCoreZero(topoResult.value)) =>
    /\ SortedByLowestCore(topoResult.value)
    /\ SameForEveryEnumeration


\* ==========================================================================
\* cli.py: _fetch_and_render_tables (lines 48-246), print_chip_info (262-354)
\* ==========================================================================

\* A grpc.RpcError whose code() is the given status.
RpcError(code) == [kind |-> "raise", exc |-> "RpcError", code |-> code]

\* The functions the module metrics defines (metrics.py lines 144-321).
MetricsFunctions ==
  {"get_chip_usage_new", "get_chip_usage", "_get_percentile",
   "get_transfer_latency", "get_tpuz_info"}

\* metrics.<name>(...): the attribute lookup on the module raises
\* AttributeError for a name the module does not define; otherwise the call
\* ends as the function does.
CallMetrics(name, outcome) ==
  IF name \in MetricsFunctions THEN outcome ELSE Raise("AttributeError")

Panel(section, severity) ==
  [section |-> section, kind |-> "panel", severity |-> severity]

Table(section, rows) == [section |-> section, kind |-> "table", rows |-> rows]

\* lines 62-75: one row per chip path, with the owner found for it (None
\* when the path has no owner).
ChipRows(chip, count, owners) ==
  [j \in 1..count |->
     [chip |-> chip_path(chip, j - 1),
      pid |-> IF chip_path(chip, j - 1) \in DOMAIN owners
              THEN [text |-> "pid", pid |-> owners[chip_path(chip, j - 1)]]
              ELSE [text |-> "None"]]]

\* line 111: device_usage = [metrics.Usage(i, -1, -1, -1) for i in range(count)]
SentinelUsage(count) == [j \in 1..count |-> Usage(j - 1, 0 - 1, 0 - 1, 0 - 1)]

NA == [text |-> "N/A"]
Blank == [text |-> ""]

\* lines 115-133: the row of one Usage.
UsageRow(chip, u) ==
  [device |-> u.device_id,
   memory |-> IF u.memory_usage < 0 THEN NA
              ELSE [text |-> "GiB", used |-> u.memory_usage,
                    total |-> u.total_memory],
   duty |-> IF TpuChip[chip].devices_per_chip = 1 \/ u.device_id % 2 = 0
            THEN (IF u.duty_cycle_pct < 0 THEN NA
                  ELSE [text |-> "%", pct |-> u.duty_cycle_pct])
            ELSE Blank]

UsageRows(chip, device_usage) ==
  [j \in 1..Len(device_usage) |-> UsageRow(chip, device_usage[j])]

\* lines 84-135: the runtime utilization section; an RpcError becomes a
\* panel and sentinel rows, any other exception leaves the function.
UsageSection(chip, count, usage) ==
  IF usage.kind = "return"
  THEN Return(<<Table("usage", UsageRows(chip, usage.value))>>)
  ELSE IF usage.exc = "RpcError"
  THEN Return(<<Panel("usage",
                      IF usage.code = "UNAVAILABLE" THEN "warning" ELSE "error"),
                Table("usage", UsageRows(chip, SentinelUsage(count)))>>)
  ELSE usage

\* The classes of the handlers of lines 159, 167 and 176; each catches the
\* subclasses of its class as well.
TensorCoreHandlers == {"ImportError", "AttributeError", "RuntimeError"}

TensorCoreCaught(exc) == Caught(exc, TensorCoreHandlers)

\* lines 141-192: the TensorCore section; a caught exception becomes a
\* panel, data becomes a table, any other exception leaves the function.
TensorCoreSection(sdk) ==
  IF sdk.kind = "return" THEN Return(<<Table("tensorcore", sdk.value)>>)
  ELSE IF TensorCoreCaught(sdk.exc)
  THEN Return(<<Panel("tensorcore", "warning")>>)
  ELSE sdk

\* lines 203-244: the transfer latency section.
LatencySection(latency) ==
  LET r == CallMetrics("get_buffer_transfer_latency", latency) IN
  IF r.kind = "return" THEN Return(<<Table("latency", r.value)>>)
  ELSE IF r.exc = "RpcError"
  THEN Return(<<Panel("latency",
                      IF r.code = "UNAVAILABLE" THEN "warning" ELSE "error"),
                Table("latency", <<>>)>>)
  ELSE r

\* _fetch_and_render_tables(chip_type, count): the list of renderables, or
\* the exception that leaves it; the sections run in the order chips, usage,
\* TensorCore, latency and the first exception to leave one ends the call.
fetch_and_render_tables(chip, count, owners, usage, sdk, latency) ==
  IF owners.kind = "raise" THEN owners
  ELSE LET u == UsageSection(chip, count, usage)
           t == TensorCoreSection(sdk)
           l == LatencySection(latency)
       IN IF u.kind = "raise" THEN u
          ELSE IF t.kind = "raise" THEN t
          ELSE IF l.kind = "raise" THEN l
          ELSE Return(<<Table("chips", ChipRows(chip, count, owners.value))>>
                      \o u.value \o t.value \o l.value)


MaxCliCount == 2

\* What get_chip_owners gives: no owner, an owner of the first chip, or its
\* RuntimeError.
CliOwnerOutcomes(chip) ==
  {Return(EmptyDict), Return(DictSet(EmptyDict, chip_path(chip, 0), 123)),
   Raise("RuntimeError")}

\* How metrics.get_chip_usage ends: one Usage per device, an RpcError with
\* status UNAVAILABLE or INTERNAL, or the length assertion failing.
CliUsageOutcomes(count) ==
  {Return([j \in 1..count |-> Usage(j - 1, UsageGauge(j - 1),
                                    TotalGauge(j - 1), DutyGauge(j - 1))]),
   RpcError("UNAVAILABLE"), RpcError("INTERNAL"), Raise("AssertionError")}

\* How the sdk import and get_metric("tensorcore_util").data() end: no
\* libtpu, no monitoring module, data, an exception of get_metric of a
\* subclass of a handler's class, or one that no handler catches.
CliSdkOutcomes ==
  {Raise("ImportError"), Raise("AttributeError"), Return(<<7>>),
   Raise("NotImplementedError"), Raise("ValueError")}

CliLatencyOutcomes == {Return(<<>>), RpcError("UNAVAILABLE")}

\* cli_args.rate in milliseconds: not positive, faster than the 30 updates
\* per second of MIN_REFRESH_RATE_SECONDS, and the default of one second.
CliRates == {0, 10, 1000}

\* cli_args.rate < MIN_REFRESH_RATE_SECONDS = 1.0 / 30 (line 282)
FasterThanMaximum(rate) == rate * 30 < 1000

\* print_chip_info has parsed its arguments (no --version) and
\* get_local_chips has returned (chip_type, count).
InitCli ==
  /\ cliStreaming \in BOOLEAN
  /\ cliRate \in CliRates
  /\ \/ cliChip = None /\ cliCount = 0
     \/ cliChip \in Families /\ cliCount \in 1..MaxCliCount
  /\ IF cliChip = None
     THEN cliOwners = Return(EmptyDict) /\ cliUsage = RpcError("UNAVAILABLE")
     ELSE cliOwners \in CliOwnerOutcomes(cliChip)
          /\ cliUsage \in CliUsageOutcomes(cliCount)
  /\ cliSdk \in CliSdkOutcomes
  /\ cliLatency \in CliLatencyOutcomes
  /\ cliPc = "start"
  /\ cliFrame = NotCalled
  /\ cliShown = <<>>
  /\ cliStderr = <<>>
  /\ IdleScan
  /\ IdleProbe
  /\ IdleUsage
  /\ IdlePct
  /\ IdleOwners
  /\ IdleCatalog
  /\ IdlePath
  /\ IdleTopo
  /\ IdleLat
  /\ IdleUploader

NoChipsMessage == [kind |-> "message", text |-> "No TPU chips found."]

\* lines 290-293, with the effective rate of the run
StreamingBanner(rate) ==
  [kind |-> "message", text |-> "Starting streaming mode", rate |-> rate]

\* console_obj.print(item) for each renderable (lines 351-354)
Renderables(items) == [kind |-> "renderables", items |-> items]

\* The Live display: the runtime status line and the renderables below it
\* (lines 314-322).
LiveDisplay(items) == [kind |-> "live", items |-> items]

\* lines 340-345: the message with the exception's type name
UnexpectedError(exc) ==
  [text |-> "An unexpected error occurred in streaming mode", exc |-> exc]

CycleFrame ==
  fetch_and_render_tables(cliChip, cliCount, cliOwners, cliUsage, cliSdk,
                          cliLatency)

cliInputs ==
  <<cliStreaming, cliChip, cliCount, cliOwners, cliUsage, cliSdk, cliLatency,
    cliRate>>

\* print_chip_info without --streaming, lines 262-271 and 348-354: one query
\* cycle, whose renderables are printed once it has returned.
PrintChipInfo ==
  /\ cliPc = "start"
  /\ ~cliStreaming
  /\ IF cliChip = None
     THEN /\ cliShown' = <<NoChipsMessage>>
          /\ cliPc' = "returned"
          /\ UNCHANGED cliFrame
     ELSE /\ cliFrame' = CycleFrame
          /\ IF CycleFrame.kind = "raise"
             THEN cliPc' = "raised" /\ UNCHANGED cliShown
             ELSE /\ cliPc' = "returned"
                  /\ cliShown' = IF CycleFrame.value = <<>> THEN <<>>
                                 ELSE <<Renderables(CycleFrame.value)>>
  /\ UNCHANGED <<cliInputs, cliStderr, nonCliVars>>

\* print_chip_info with --streaming, lines 262-346: a rate that is not
\* positive ends the call; a rate faster than the maximum is capped with a
\* warning; the banner is printed; the first cycle runs inside the try of
\* line 302, and an exception of it is caught at line 340, reported on
\* stderr, and the function returns. Only a first cycle that returns opens
\* the live display, from which the refresh loop of lines 323-331 goes on.
PrintChipInfoStreaming ==
  /\ cliPc = "start"
  /\ cliStreaming
  /\ IF cliChip = None
     THEN /\ cliShown' = <<NoChipsMessage>>
          /\ cliPc' = "returned"
          /\ UNCHANGED <<cliFrame, cliStderr>>
     ELSE IF cliRate <= 0
     THEN /\ cliStderr' = <<[text |-> "Error: Refresh rate must be positive."]>>
          /\ cliPc' = "returned"
          /\ UNCHANGED <<cliFrame, cliShown>>
     ELSE
       LET warned == IF FasterThanMaximum(cliRate)
                     THEN <<[text |-> "WARNING: Provided rate is faster than the supported maximum"]>>
                     ELSE <<>>
           banner == StreamingBanner(IF FasterThanMaximum(cliRate)
                                     THEN "capped" ELSE "given")
       IN /\ cliFrame' = CycleFrame
          /\ IF CycleFrame.kind = "raise"
             THEN /\ cliPc' = "returned"
                  /\ cliStderr' = Append(warned, UnexpectedError(CycleFrame.exc))
                  /\ cliShown' = <<banner>>
             ELSE IF CycleFrame.value = <<>>
             THEN /\ cliPc' = "returned"
                  /\ cliStderr' =
                       Append(warned, [text |-> "No data tables could be generated. Exiting streaming."])
                  /\ cliShown' = <<banner>>
             ELSE /\ cliPc' = "live"
                  /\ cliStderr' = warned
                  /\ cliShown' = <<banner, LiveDisplay(CycleFrame.value)>>
  /\ UNCHANGED <<cliInputs, nonCliVars>>

NextCli == PrintChipInfo \/ PrintChipInfoStreaming

SpecCli == InitCli /\ [][NextCli]_vars

\* The renderables of one section of a frame, in order.
SectionOf(items, section) ==
  SelectSeq(items, LAMBDA r : r.section = section)

CycleRan ==
  /\ cliPc # "start"
  /\ cliChip # None
  /\ cliOwners.kind = "return"
  /\ cliStreaming => cliRate > 0

\* C23: when the usage RPC fails with UNAVAILABLE the query cycle is not
\* aborted: the warning panel is emitted, every device index 0..count-1 gets
\* a sentinel Usage shown as N/A, the remaining sections up to the transfer
\* latency section are produced, and print_chip_info returns without raising.
\* Refuted, even with a TensorCore section that ends in a table or a panel:
\* line 205 asks the module metrics for get_buffer_transfer_latency, which
\* it does not define, and the AttributeError leaves the cycle.
C23_UnavailableCycleCompletes ==
  (CycleRan /\ cliUsage = RpcError("UNAVAILABLE")
     /\ (cliSdk.kind = "return" \/ TensorCoreCaught(cliSdk.exc))) =>
    /\ cliPc # "raised"
    /\ cliFrame.kind = "return"
    /\ SectionOf(cliFrame.value, "usage") =
         <<Panel("usage", "warning"),
           Table("usage", UsageRows(cliChip, SentinelUsage(cliCount)))>>
    /\ \A j \in 1..cliCount :
         UsageRows(cliChip, SentinelUsage(cliCount))[j].memory = NA
    /\ SectionOf(cliFrame.value, "tensorcore") # <<>>
    /\ SectionOf(cliFrame.value, "latency") # <<>>

\* The rows a cycle has to show for its usage response: the real values of a
\* healthy response, the sentinel rows after an RpcError.
RowsOfResponse ==
  IF cliUsage.kind = "return" THEN UsageRows(cliChip, cliUsage.value)
  ELSE UsageRows(cliChip, SentinelUsage(cliCount))

\* C27: in streaming mode a cycle displays the rows its own responses
\* determine, a failed metric RPC included, and the display stays live for
\* the next cycle, so that a healthy service is shown with real values.
\* Refuted: the first cycle of every streaming run ends in the AttributeError
\* of line 205, only the banner is printed and the run returns before any
\* refresh.
C27_StreamingShowsCycleResponses ==
  (cliStreaming /\ CycleRan
     /\ (cliUsage.kind = "return" \/ cliUsage.exc = "RpcError")
     /\ (cliSdk.kind = "return" \/ TensorCoreCaught(cliSdk.exc))) =>
    /\ cliPc = "live"
    /\ \E k \in 1..Len(cliShown) :
         /\ cliShown[k].kind = "live"
         /\ \E i \in 1..Len(cliShown[k].items) :
              cliShown[k].items[i] = Table("usage", RowsOfResponse)


\* ==========================================================================
\* metrics.py: get_transfer_latency (lines 262-318)
\* ==========================================================================

\* int(count * p) for p = num/den, count >= 0 (lines 296-299).
PercentileCount(count, num, den) == (count * num) \div den

\* The four target counts p50_count, p90_count, p95_count, p999_count.
PercentileTargets(count) ==
  <<PercentileCount(count, 1, 2), PercentileCount(count, 9, 10),
    PercentileCount(count, 95, 100), PercentileCount(count, 999, 1000)>>

\* lines 301-304: the four estimates of one distribution, as call outcomes.
Percentiles(d) ==
  [k \in 1..4 |->
     get_percentile(PercentileTargets(d.count)[k], d.count, d.bucket_counts,
                    d.scale, d.growth_factor)]

\* lines 306-307
transfer_size_of(attributes) ==
  IF attributes # <<>> THEN attributes[1] ELSE "N/A"

TransferLatencyDistribution(transfer_size, p50, p90, p95, p999) ==
  [transfer_size |-> transfer_size, p50 |-> p50, p90 |-> p90, p95 |-> p95,
   p999 |-> p999]

\* The loop of lines 289-316 from metric i on, appending to the list built
\* so far; an exception of _get_percentile leaves the function.
RECURSIVE LatencyLoop(_, _, _)
LatencyLoop(metrics, i, latency_distributions) ==
  IF i > Len(metrics) THEN Return(latency_distributions)
  ELSE LET p == Percentiles(metrics[i].distribution) IN
    IF \E k \in 1..4 : p[k].kind = "raise"
    THEN Raise("ZeroDivisionError")
    ELSE LatencyLoop(metrics, i + 1,
           Append(latency_distributions,
                  TransferLatencyDistribution(
                    transfer_size_of(metrics[i].attributes),
                    p[1].value, p[2].value, p[3].value, p[4].value)))

get_transfer_latency(resp) ==
  IF resp.kind = "raise" THEN resp ELSE LatencyLoop(resp.value, 1, <<>>)

\* ---- the responses get_transfer_latency is run on ----
MaxMetrics == 2

LatBuckets == {<<>>, <<0, 0>>, <<2, 3, 5, 10>>, <<100, 400, 400, 100>>}

LatCounts == {0, 20, 1000}

LatDistributions ==
  [bucket_counts : LatBuckets, count : LatCounts, scale : {Rat(1, 1)},
   growth_factor : GrowthFactors]

LatAttributes == {<<>>, <<"8MB+">>, <<"0-1MB", "x">>}

LatMetrics == [attributes : LatAttributes, distribution : LatDistributions]

InitLat ==
  /\ \E n \in 0..MaxMetrics :
       \/ latResp \in {Return(m) : m \in [1..n -> LatMetrics]}
       \/ n = 0 /\ latResp = RpcError("UNAVAILABLE")
  /\ latRequests = 0
  /\ latResult = NotCalled
  /\ IdleScan
  /\ IdleProbe
  /\ IdleUsage
  /\ IdlePct
  /\ IdleOwners
  /\ IdleCatalog
  /\ IdlePath
  /\ IdleTopo
  /\ IdleCli
  /\ IdleUploader

\* One call get_transfer_latency(metric_arg): one GetRuntimeMetric request
\* (lines 281-283), then the loop over the metrics of the response.
GetTransferLatency ==
  /\ latResult = NotCalled
  /\ latRequests' = latRequests + 1
  /\ latResult' = get_transfer_latency(latResp)
  /\ UNCHANGED <<latResp, nonLatVars>>

NextLat == GetTransferLatency

SpecLat == InitLat /\ [][NextLat]_vars


\* floor(count * num / den) as the integer k with k <= count * num / den < k + 1.
FloorOf(count, num, den) ==
  CHOOSE k \in 0..count : k * den <= count * num /\ count * num < (k + 1) * den

EstimatorAt(d, num, den) ==
  get_percentile(FloorOf(d.count, num, den), d.count, d.bucket_counts,
                 d.scale, d.growth_factor)

EstimatorReturns(d) ==
  /\ EstimatorAt(d, 1, 2).kind = "return"
  /\ EstimatorAt(d, 9, 10).kind = "return"
  /\ EstimatorAt(d, 95, 100).kind = "return"
  /\ EstimatorAt(d, 999, 1000).kind = "return"

\* The row is the one the claim describes for the metric.
RowOfMetric(row, m) ==
  /\ row.transfer_size =
       (IF Len(m.attributes) = 0 THEN "N/A" ELSE Head(m.attributes))
  /\ EstimatorReturns(m.distribution)
  /\ RatEq(row.p50, EstimatorAt(m.distribution, 1, 2).value)
  /\ RatEq(row.p90, EstimatorAt(m.distribution, 9, 10).value)
  /\ RatEq(row.p95, EstimatorAt(m.distribution, 95, 100).value)
  /\ RatEq(row.p999, EstimatorAt(m.distribution, 999, 1000).value)

LatCalled == latResult # NotCalled /\ latResp.kind = "return"

OneRowPerHistogram ==
  /\ latResult.kind = "return"
  /\ Len(latResult.value) = Len(latResp.value)
  /\ \A i \in 1..Len(latResp.value) :
       RowOfMetric(latResult.value[i], latResp.value[i])

\* C24: get_transfer_latency issues one metric request and returns exactly
\* one TransferLatencyDistribution per histogram of the response, in
\* response order, with p50/p90/p95/p999 the estimator's results for the
\* target counts floor(count * 0.5), floor(count * 0.9), floor(count * 0.95),
\* floor(count * 0.999) and the key the first attribute's string value, or
\* "N/A" without attributes.
\* Refuted: a histogram whose estimate divides by a bucket count of 0 (an
\* empty histogram with two or more zero buckets) ends the call with
\* ZeroDivisionError and no row is returned for any histogram.
C24_OneDistributionPerHistogram ==
  LatCalled => (latRequests = 1 /\ OneRowPerHistogram)

\* What does hold: one request; the rows are as described when every
\* estimate of every histogram returns, and otherwise the call raises
\* ZeroDivisionError.
C24_OneDistributionUnlessEstimatorRaises ==
  LatCalled =>
    /\ latRequests = 1
    /\ IF \A i \in 1..Len(latResp.value) :
            EstimatorReturns(latResp.value[i].distribution)
       THEN OneRowPerHistogram
       ELSE latResult = Raise("ZeroDivisionError")



\* ==========================================================================
\* tensorboard_uploader/uploader.py
\* ==========================================================================
MaxThreads == 2

\* What aiplatform.init, tensorboard.get_instance_identifiers and
\* tensorboard.get_experiment give one start_upload_to_tensorboard call.
InitOutcomes == {Return(None), Raise("Exception")}
InstanceOutcomes ==
  {Return(<<>>), Return(<<"tb1">>), Return(<<"tb1", "tb2">>), Raise("Exception")}
ExperimentOutcomes == {Return(None), Return("experiment"), Raise("Exception")}

\* A mutant of start_outcome: the experiment is not looked up.
start_outcome_skip_experiment(init, instances, experiment) ==
  IF init.kind = "raise" THEN [log |-> "exception", start |-> FALSE]
  ELSE IF instances.kind = "raise" THEN [log |-> "exception", start |-> FALSE]
  ELSE IF instances.value = <<>> THEN [log |-> "error", start |-> FALSE]
  ELSE [log |-> "info", start |-> TRUE, tensorboard_id |-> instances.value[1]]

\* lines 70-105: what start_upload_to_tensorboard logs and whether it goes on
\* to start_upload, with the first identifier of the list.
start_outcome(init, instances, experiment) ==
  IF init.kind = "raise" THEN [log |-> "exception", start |-> FALSE]
  ELSE IF instances.kind = "raise" THEN [log |-> "exception", start |-> FALSE]
  ELSE IF instances.value = <<>> THEN [log |-> "error", start |-> FALSE]
  ELSE IF experiment.kind = "raise" THEN [log |-> "exception", start |-> FALSE]
  ELSE IF experiment.value = None THEN [log |-> "error", start |-> FALSE]
  ELSE [log |-> "info", start |-> TRUE, tensorboard_id |-> instances.value[1]]

InitUploader ==
  /\ exit_flag = FALSE
  /\ upload_thread = 0
  /\ uploadThreads = <<>>
  /\ uploaderPc = "ready"
  /\ uploaderLast = NotCalled
  /\ IdleScan
  /\ IdleProbe
  /\ IdleUsage
  /\ IdlePct
  /\ IdleOwners
  /\ IdleCatalog
  /\ IdlePath
  /\ IdleTopo
  /\ IdleCli
  /\ IdleLat

\* start_upload_to_tensorboard (lines 70-105) with start_upload (121-138):
\* the flag is cleared, a new thread replaces _upload_thread and is started.
StartUploadToTensorboard ==
  /\ uploaderPc = "ready"
  /\ \E init \in InitOutcomes, instances \in InstanceOutcomes,
        experiment \in ExperimentOutcomes :
       LET o == start_outcome(init, instances, experiment) IN
       /\ o.start => Len(uploadThreads) < MaxThreads
       /\ uploaderLast' =
            [kind |-> "start", init |-> init, instances |-> instances,
             experiment |-> experiment, log |-> o.log,
             threadsBefore |-> Len(uploadThreads),
             threadBefore |-> upload_thread, flagBefore |-> exit_flag]
       /\ IF o.start
          THEN /\ exit_flag' = FALSE
               /\ uploadThreads' = Append(uploadThreads, "check")
               /\ upload_thread' = Len(uploadThreads) + 1
          ELSE UNCHANGED <<exit_flag, uploadThreads, upload_thread>>
  /\ UNCHANGED <<uploaderPc, nonUploaderVars>>

\* stop_upload_to_tensorboard, lines 112-117: the flag is set and, with a
\* thread in _upload_thread, the caller waits in join.
StopUploadToTensorboard ==
  /\ uploaderPc = "ready"
  /\ exit_flag' = TRUE
  /\ uploaderPc' = IF upload_thread # 0 THEN "joining" ELSE "ready"
  /\ uploaderLast' = [kind |-> "stop", returned |-> upload_thread = 0]
  /\ UNCHANGED <<upload_thread, uploadThreads, nonUploaderVars>>

\* lines 117-118: join returns once the thread in _upload_thread has ended.
JoinReturns ==
  /\ uploaderPc = "joining"
  /\ uploadThreads[upload_thread] = "done"
  /\ uploaderPc' = "ready"
  /\ uploaderLast' = [kind |-> "stop", returned |-> TRUE]
  /\ UNCHANGED <<exit_flag, upload_thread, uploadThreads, nonUploaderVars>>

ThreadStep(t, from, to) ==
  /\ uploadThreads[t] = from
  /\ uploadThreads' = [uploadThreads EXCEPT ![t] = to]
  /\ UNCHANGED <<exit_flag, upload_thread, uploaderPc, uploaderLast,
                 nonUploaderVars>>

\* upload_logs line 149: while not _exit_flag.is_set()
ThreadCheck ==
  \E t \in 1..Len(uploadThreads) :
    ThreadStep(t, "check", IF exit_flag THEN "done" ELSE "sleep")

\* line 150: time.sleep(1) returns
ThreadSleep == \E t \in 1..Len(uploadThreads) : ThreadStep(t, "sleep", "upload")

\* lines 151-163: aiplatform.upload_tb_log returns, or raises and is logged
ThreadUpload == \E t \in 1..Len(uploadThreads) : ThreadStep(t, "upload", "check")

NextUploader ==
  \/ StartUploadToTensorboard
  \/ StopUploadToTensorboard
  \/ JoinReturns
  \/ ThreadCheck
  \/ ThreadSleep
  \/ ThreadUpload

SpecUploader == InitUploader /\ [][NextUploader]_vars


\* The last call was a start that found no Tensorboard instance of the given
\* name, or an instance without the named experiment.
StartFoundNothing ==
  /\ uploaderLast.kind = "start"
  /\ uploaderLast.init.kind = "return"
  /\ uploaderLast.instances.kind = "return"
  /\ \/ uploaderLast.instances.value = <<>>
     \/ uploaderLast.experiment = Return(None)

\* C25: a start_upload_to_tensorboard that finds no instance of the given
\* name, or no experiment of the given name in the instance, logs an error
\* and returns without raising; it creates and starts no thread and leaves
\* _upload_thread and the exit flag as they were.
C25_NoThreadWithoutInstanceOrExperiment ==
  StartFoundNothing =>
    /\ uploaderLast.log = "error"
    /\ uploaderPc = "ready"
    /\ Len(uploadThreads) = uploaderLast.threadsBefore
    /\ upload_thread = uploaderLast.threadBefore
    /\ exit_flag = uploaderLast.flagBefore

C25_Witness ==
  /\ uploaderLast.kind = "start"
  /\ uploaderLast.init.kind = "return"
  /\ uploaderLast.instances = Return(<<"tb1">>)
  /\ uploaderLast.experiment = Return(None)
  /\ uploaderLast.log = "error"
  /\ uploadThreads = <<>>

C25_WitnessNoInstance ==
  /\ uploaderLast.kind = "start"
  /\ uploaderLast.instances = Return(<<>>)
  /\ uploaderLast.experiment = Return("experiment")
  /\ uploaderLast.log = "error"
  /\ Len(uploadThreads) = 1

StopReturned ==
  uploaderLast.kind = "stop" /\ uploaderLast.returned /\ uploaderPc = "ready"

\* C26: once stop_upload_to_tensorboard has returned, no thread created by
\* an earlier start is still running or issuing uploads.
\* Refuted: a second start replaces _upload_thread, stop joins only the
\* thread of the last start, and the thread of the first start may still be
\* sleeping or uploading when stop returns.
C26_NoThreadRunsAfterStop ==
  StopReturned =>
    \A t \in 1..Len(uploadThreads) : uploadThreads[t] = "done"

\* What does hold: the thread of the last start has ended when stop returns.
C26_LastThreadEndedAfterStop ==
  (StopReturned /\ upload_thread # 0) => uploadThreads[upload_thread] = "done"



\* ==========================================================================
\* metrics.py: _get_percentile, safety and order of the estimates
\* ==========================================================================
PctCalled == pctResult # NotCalled

\* C28: for every histogram with non-negative bucket counts and total count
\* (a total of 0 with all-zero buckets included) and every target count in
\* 0..total, _get_percentile returns a number and never raises: it never
\* divides by a bucket count of zero.
\* Refuted: the crossing bucket may be empty, and is for every all-zero
\* histogram of two or more buckets.
C28_NeverRaises ==
  PctCalled => pctResult.kind = "return"

\* The bucket counts sum to the total count.
Consistent == SumFrom(hist.bucket_counts, 0) = hist.count

EstimateOf(t) ==
  get_percentile(t, hist.count, hist.bucket_counts, hist.scale,
                 hist.growth_factor)

\* The estimate for every lower target count is defined and not above the
\* estimate of the call made.
MonotoneUpToTarget ==
  /\ pctResult.kind = "return"
  /\ \A t1 \in 0..target :
       /\ EstimateOf(t1).kind = "return"
       /\ RatLe(EstimateOf(t1).value, pctResult.value)

\* With a crossing bucket the estimate lies between the bucket's lower bound
\* and lower bound times growth factor.
WithinCrossingBucket ==
  pctResult.found =>
    /\ pctResult.kind = "return"
    /\ RatLe(LowerBound(hist.scale, hist.growth_factor, pctResult.crossing),
             pctResult.value)
    /\ RatLe(pctResult.value,
             LowerBound(hist.scale, hist.growth_factor, pctResult.crossing + 1))

\* C29: for a histogram with positive scale, growth factor > 1 and bucket
\* counts summing to the total count the estimate is monotone in the target
\* count, t1 <= t2 implying _get_percentile(t1) <= _get_percentile(t2), and
\* an estimate with a crossing bucket lies within that bucket's bounds.
\* Refuted: with a scale below 1 the fall-through value 1 of a low target
\* lies above the estimates of higher targets in the low buckets, and an
\* empty crossing bucket raises.
C29_MonotoneInTarget ==
  (PctCalled /\ Consistent) => (MonotoneUpToTarget /\ WithinCrossingBucket)

\* The order fails for histograms on which no estimate raises as well.
C29_MonotoneWhenNothingRaises ==
  (PctCalled /\ Consistent
     /\ \A t \in 0..hist.count : EstimateOf(t).kind = "return") =>
    MonotoneUpToTarget

\* What does hold: the estimates that return are ordered when the scale is
\* at least 1, and every estimate with a non-empty crossing bucket lies
\* within the bucket's bounds.
C29_MonotoneWhenScaleAtLeastOne ==
  (PctCalled /\ Consistent /\ pctResult.kind = "return") =>
    /\ WithinCrossingBucket
    /\ RatLe(Rat(1, 1), hist.scale) =>
         \A t1 \in 0..target :
           EstimateOf(t1).kind = "return" =>
             RatLe(EstimateOf(t1).value, pctResult.value)



\* ==========================================================================
\* device.py: get_actual_chips against the catalogue and get_local_chips
\* ==========================================================================

\* The entry of the tree a returned core was built from.
EntryOfCore(core) ==
  topo[CHOOSE j \in 1..Len(topo) : topo[j].pci_addr = core.full_addr]

\* C30: every core get_actual_chips reports belongs to a function whose
\* (device id, subsystem id) resolves to a recognized chip family, an
\* accelerator-vendor function that is no recognized chip never appears, and
\* on a tree where every recognized function has an IOMMU group the cores
\* add up to the count get_local_chips returns.
\* Refuted: get_actual_chips never consults the catalogue; any function of
\* the accelerator vendor with an iommu_group link becomes a core.
C30_CoresAreRecognizedChips ==
  TopoCalled =>
    /\ topoResult.kind = "return"
    /\ \A ck \in CoresOf(topoResult.value) :
         Recognized(EntryOfCore(topoResult.value[ck[1]].cores[ck[2]].value))
    /\ ((\A j \in 1..Len(topo) :
            Recognized(topo[j]) => topo[j].iommu_group # NoLink)
        /\ get_local_chips(topo).kind = "return") =>
         SumOfCores(topoResult.value, 1) = get_local_chips(topo).value[2]

\* What does hold: on a tree whose accelerator-vendor functions are all
\* recognized chips with an IOMMU group, the cores add up to the count of
\* get_local_chips.
C30_CoresEqualCountOnRecognizedTrees ==
  (/\ TopoCalled
   /\ \A j \in 1..Len(topo) :
        topo[j].vendor = GOOGLE_PCI_VENDOR_ID =>
          (Recognized(topo[j]) /\ topo[j].iommu_group # NoLink)
   /\ get_local_chips(topo).kind = "return") =>
    SumOfCores(topoResult.value, 1) = get_local_chips(topo).value[2]

====
